---- MODULE Spec2Model ----
(***************************************************************************)
(* UW Assignment Tracker: the shared status board.                         *)
(*                                                                         *)
(* Every browser tab (a client) mounts one UWAssignmentTracker component   *)
(* with its own React state (currentUser, userRole, appData, ...) and      *)
(* shares one stored ledger (storage key 'uw-tracker-shared-data') with    *)
(* the other clients.  Time is counted in hours since the Unix epoch;      *)
(* Date.now() is the current hour.  Strings are sequences of characters.   *)
(* A nullable value is a set: {} is null and {v} is the value v.           *)
(***************************************************************************)
EXTENDS Integers, Sequences, FiniteSets, TLC

VARIABLES now, tz, store, currentUser, userRole, appData, loading,
          refreshing, load, loadBuf, saves, notification, lastOp,
          gateArgs, gateResult, dateResult, sortResult, retry, classified,
          auth, audit

vars == <<now, tz, store, currentUser, userRole, appData, loading,
          refreshing, load, loadBuf, saves, notification, lastOp,
          gateArgs, gateResult,
          dateResult, sortResult, retry, classified, auth, audit>>

----------------------------------------------------------------------------
(* Bounds of the model *)

\* last hour the clock reaches
MaxNow == 8
\* counters are explored within this distance of the limits 0 and 99
CountSpread == 0
\* longest string given to the authorization gate
MaxStrLen == 2
\* last hour of the epoch getCSTDateString is applied at
MaxDateHour == 56
\* largest counter and latest hour of a change in the ledgers that are sorted
MaxSortKey == 2
\* most writes of one client on their way to the store
MaxPending == 2
\* largest counter the assigner of the two clients reaches
MaxConcCount == 2
\* the largest maxAttempts withRetry is called with, and the number of
\* outcomes drawn for its fn
MaxAttempts == 3
\* the number of times the session of the auth service changes
MaxAuthChanges == 2
\* the number of logAction calls
MaxLogged == 503

----------------------------------------------------------------------------
(* Nullable values *)

Null == {}
Some(x) == {x}
Get(o) == CHOOSE x \in o : TRUE

----------------------------------------------------------------------------
(* Strings *)

Lower(ch) == CASE ch = "A" -> "a"
               [] ch = "B" -> "b"
               [] ch = "C" -> "c"
               [] OTHER -> ch

\* String.prototype.toLowerCase
ToLowerCase(s) == [i \in 1..Len(s) |-> Lower(s[i])]

RECURSIVE TrimStart(_)
TrimStart(s) == IF s # <<>> /\ Head(s) = " " THEN TrimStart(Tail(s)) ELSE s

RECURSIVE TrimEnd(_)
TrimEnd(s) == IF s # <<>> /\ s[Len(s)] = " "
              THEN TrimEnd(SubSeq(s, 1, Len(s) - 1)) ELSE s

\* String.prototype.trim
Trim(s) == TrimEnd(TrimStart(s))

RECURSIVE Filter(_, _)
Filter(s, keep) == IF s = <<>> THEN <<>>
                   ELSE IF Head(s) \in keep
                        THEN <<Head(s)>> \o Filter(Tail(s), keep)
                        ELSE Filter(Tail(s), keep)

\* the address local@domain, the domain "n" standing for nationslending.com
Addr(local, domain) == <<local, "@", domain>>

----------------------------------------------------------------------------
(* validation.js *)

UserRole == [UNDERWRITER |-> "underwriter", ASSIGNER |-> "assigner",
             UNKNOWN |-> "unknown"]

ValidationMessages == [UNAUTHORIZED_ACTION |-> "unauthorized",
                       STORAGE_ERROR |-> "storage-error"]

\* CONFIG of the tracker: two underwriters and one assigner
CONFIG == [underwriters |-> {Addr("a", "n"), Addr("b", "n")},
           assigners |-> {Addr("c", "n")},
           allowedDomains |-> {<<"n">>}]

UWs == CONFIG.underwriters

\* normalizeEmail comparing addresses case-sensitively
normalizeEmail_CaseSensitive(email) ==
    IF email = Null \/ Get(email) = <<>> THEN <<>>
    ELSE Trim(Get(email))

normalizeEmail(email) ==
    IF email = Null \/ Get(email) = <<>> THEN <<>>
    ELSE ToLowerCase(Trim(Get(email)))

\* the characters sanitizeEmail keeps: a-z 0-9 @ . _ - +
EmailChars == {"a", "b", "c", "x", "n", "m", "@"}

sanitizeEmail(email) ==
    IF email = Null \/ Get(email) = <<>> THEN <<>>
    ELSE Filter(ToLowerCase(Trim(Get(email))), EmailChars)

\* the regular expression: a local part, one "@", a domain
isValidEmailFormat(email) ==
    IF email = Null \/ Get(email) = <<>> THEN FALSE
    ELSE LET s == Trim(Get(email))
             ats == {i \in 1..Len(s) : s[i] = "@"}
         IN /\ Cardinality(ats) = 1
            /\ \A i \in ats : 1 < i /\ i < Len(s)
            /\ \A i \in 1..Len(s) : s[i] # " "

isAllowedDomain(email, allowedDomains) ==
    IF ~isValidEmailFormat(email) THEN FALSE
    ELSE LET s == ToLowerCase(Trim(Get(email)))
             at == CHOOSE i \in 1..Len(s) : s[i] = "@"
             domain == SubSeq(s, at + 1, Len(s))
         IN domain \in allowedDomains

getUserRole(email, config) ==
    LET normalizedEmail == normalizeEmail(email)
    IN IF normalizedEmail = <<>> THEN UserRole.UNKNOWN
       ELSE IF normalizedEmail \in config.assigners THEN UserRole.ASSIGNER
       ELSE IF normalizedEmail \in config.underwriters
            THEN UserRole.UNDERWRITER
       ELSE UserRole.UNKNOWN

validateAuthorization(email, config) ==
    LET sanitizedEmail == sanitizeEmail(email)
        failed == [isAuthorized |-> FALSE, role |-> UserRole.UNKNOWN,
                   email |-> <<>>]
    IN IF ~isValidEmailFormat(Some(sanitizedEmail)) THEN failed
       ELSE IF ~isAllowedDomain(Some(sanitizedEmail), config.allowedDomains)
            THEN failed
       ELSE IF getUserRole(Some(sanitizedEmail), config) = UserRole.UNKNOWN
            THEN failed
       ELSE [isAuthorized |-> TRUE,
             role |-> getUserRole(Some(sanitizedEmail), config),
             email |-> sanitizedEmail]

\* canModifyStatus letting an underwriter modify any status
canModifyStatus_AnyUnderwriter(currentUserEmail, targetEmail, role) ==
    role \in {UserRole.ASSIGNER, UserRole.UNDERWRITER}

\* canModifyStatus allowing what it does not know
canModifyStatus_DefaultAllow(currentUserEmail, targetEmail, role) ==
    LET normalizedCurrent == normalizeEmail(currentUserEmail)
        normalizedTarget == normalizeEmail(targetEmail)
    IN IF role = UserRole.ASSIGNER THEN TRUE
       ELSE IF role = UserRole.UNDERWRITER
            THEN normalizedCurrent = normalizedTarget
       ELSE TRUE

canModifyStatus(currentUserEmail, targetEmail, role) ==
    LET normalizedCurrent == normalizeEmail(currentUserEmail)
        normalizedTarget == normalizeEmail(targetEmail)
    IN IF role = UserRole.ASSIGNER THEN TRUE
       ELSE IF role = UserRole.UNDERWRITER
            THEN normalizedCurrent = normalizedTarget
       ELSE FALSE

\* canModifyCount letting every signed-in user modify counts
canModifyCount_AnySignedIn(role) == role # UserRole.UNKNOWN

canModifyCount(role) == role = UserRole.ASSIGNER

----------------------------------------------------------------------------
(* Time utilities of UWAssignmentTracker.jsx.  off is the host's           *)
(* getTimezoneOffset() in hours (UTC minus local time).                    *)

cstOffset == -6
ResetHour == 2
HoursPerDay == 24

\* the instant new Date(now.getTime() + (utcOffset + cstOffset) * 60000)
cstTime(t, off) == t + (off + cstOffset)

\* Date.prototype.getHours: the hour of the host's local wall clock
getHours(t, off) == (t - off) % HoursPerDay

\* toISOString().split('T')[0]: the UTC calendar day, as a day number
getCSTDateString(t, off) ==
    LET c == cstTime(t, off)
        d == IF getHours(c, off) < ResetHour THEN c - HoursPerDay ELSE c
    IN d \div HoursPerDay

getCSTTimeString(t, off) ==
    LET h == getHours(cstTime(t, off), off)
    IN [hours |-> IF h % 12 = 0 THEN 12 ELSE h % 12,
        ampm |-> IF h >= 12 THEN "PM" ELSE "AM"]

getCSTTimestamp(t) == t

----------------------------------------------------------------------------
(* Data management *)

MaxCount == 99

NeutralRecord == [status |-> "neutral", count |-> 0,
                  statusTime |-> Null, statusTimestamp |-> Null]

createDefaultData(config, t, off) ==
    [lastResetDate |-> getCSTDateString(t, off),
     underwriters |-> [email \in config.underwriters |-> NeutralRecord]]

\* the record of email, a missing record reading as its `|| default` values
RecordOf(data, email) ==
    IF email \in DOMAIN data.underwriters THEN data.underwriters[email]
    ELSE NeutralRecord

\* the new ledger built without the spread of the other records
WithRecord_Alone(data, email, rec) ==
    [data EXCEPT !.underwriters = [e \in {email} |-> rec]]

\* { ...data, underwriters: { ...data.underwriters, [email]: rec } }
WithRecord(data, email, rec) ==
    [data EXCEPT !.underwriters =
        [e \in DOMAIN data.underwriters \cup {email} |->
            IF e = email THEN rec ELSE data.underwriters[e]]]

\* the daily reset forgetting the counters
ResetData_KeepsCounts(data, today) ==
    [lastResetDate |-> today,
     underwriters |-> [e \in DOMAIN data.underwriters |->
        [NeutralRecord EXCEPT !.count = data.underwriters[e].count]]]

\* the daily reset leaving the date of the ledger as it was
ResetData_KeepsDate(data, today) ==
    [lastResetDate |-> data.lastResetDate,
     underwriters |-> [e \in DOMAIN data.underwriters |-> NeutralRecord]]

\* loadData: the daily reset of a loaded ledger
ResetData(data, today) ==
    [lastResetDate |-> today,
     underwriters |-> [e \in DOMAIN data.underwriters |-> NeutralRecord]]

\* loadData: the check for the daily reset of a loaded ledger
checkAndReset(data, today) ==
    IF data.lastResetDate # today THEN ResetData(data, today) ELSE data

\* loadData: add the records of underwriters of the config that are missing
SyncConfig(data, config) ==
    [data EXCEPT !.underwriters =
        [e \in DOMAIN data.underwriters \cup config.underwriters |->
            IF e \in DOMAIN data.underwriters THEN data.underwriters[e]
            ELSE NeutralRecord]]

Max(a, b) == IF a > b THEN a ELSE b
Min(a, b) == IF a < b THEN a ELSE b

\* changeStatus leaving the display time when the status is cleared
changeStatusData_KeepsTime(data, email, newStatus, t, off) ==
    LET currentStatus == RecordOf(data, email).status
        updatedStatus == IF currentStatus = newStatus THEN "neutral"
                         ELSE newStatus
    IN WithRecord(data, email,
          [RecordOf(data, email) EXCEPT
              !.status = updatedStatus,
              !.statusTime = Some(getCSTTimeString(t, off)),
              !.statusTimestamp = IF updatedStatus # "neutral"
                                  THEN Some(getCSTTimestamp(t)) ELSE Null])

\* changeStatus clearing an active status before another can be set
changeStatusData_ClearsFirst(data, email, newStatus, t, off) ==
    LET currentStatus == RecordOf(data, email).status
        updatedStatus == IF currentStatus # "neutral" THEN "neutral"
                         ELSE newStatus
    IN WithRecord(data, email,
          [RecordOf(data, email) EXCEPT
              !.status = updatedStatus,
              !.statusTime = IF updatedStatus # "neutral"
                             THEN Some(getCSTTimeString(t, off)) ELSE Null,
              !.statusTimestamp = IF updatedStatus # "neutral"
                                  THEN Some(getCSTTimestamp(t)) ELSE Null])

\* changeStatus setting the requested status without the toggle
changeStatusData_NoToggle(data, email, newStatus, t, off) ==
    WithRecord(data, email,
          [RecordOf(data, email) EXCEPT
              !.status = newStatus,
              !.statusTime = Some(getCSTTimeString(t, off)),
              !.statusTimestamp = Some(getCSTTimestamp(t))])

\* changeStatus: the ledger handed to saveData
changeStatusData(data, email, newStatus, t, off) ==
    LET currentStatus == RecordOf(data, email).status
        updatedStatus == IF currentStatus = newStatus THEN "neutral"
                         ELSE newStatus
    IN WithRecord(data, email,
          [RecordOf(data, email) EXCEPT
              !.status = updatedStatus,
              !.statusTime = IF updatedStatus # "neutral"
                             THEN Some(getCSTTimeString(t, off)) ELSE Null,
              !.statusTimestamp = IF updatedStatus # "neutral"
                                  THEN Some(getCSTTimestamp(t)) ELSE Null])

\* the new counter without the upper limit
newCountOf_NoUpperLimit(currentCount, delta) == Max(0, currentCount + delta)

\* the new counter without the lower limit
newCountOf_NoLowerLimit(currentCount, delta) ==
    Min(MaxCount, currentCount + delta)

\* changeCount: the new counter
newCountOf(currentCount, delta) == Max(0, Min(MaxCount, currentCount + delta))

\* changeCount building the record without the spread of its fields
changeCountData_ClearsStatus(data, email, delta) ==
    LET currentCount == RecordOf(data, email).count
        newCount == newCountOf(currentCount, delta)
    IN WithRecord(data, email, [NeutralRecord EXCEPT !.count = newCount])

\* changeCount: the ledger handed to saveData
changeCountData(data, email, delta) ==
    LET currentCount == RecordOf(data, email).count
        newCount == newCountOf(currentCount, delta)
    IN WithRecord(data, email,
          [RecordOf(data, email) EXCEPT !.count = newCount])

----------------------------------------------------------------------------
(* Sorting *)

Alphabet == <<"a", "b", "c", "d", "e", "f", "g", "h", "i", "j", "k", "l", "m",
              "n", "o", "p", "q", "r", "s", "t", "u", "v", "w", "x", "y", "z">>
Capitals == <<"A", "B", "C", "D", "E", "F", "G", "H", "I", "J", "K", "L", "M",
              "N", "O", "P", "Q", "R", "S", "T", "U", "V", "W", "X", "Y", "Z">>

\* the place of a letter in the alphabet, of either case
LetterIndex(ch) ==
    CHOOSE i \in 1..Len(Alphabet) : Alphabet[i] = ch \/ Capitals[i] = ch

IsCapital(ch) == \E i \in 1..Len(Capitals) : Capitals[i] = ch

\* the places where x and y differ by more than the case of the letter
LetterDiffs(x, y) ==
    {i \in 1..Min(Len(x), Len(y)) : LetterIndex(x[i]) # LetterIndex(y[i])}

\* the places where x and y differ
CaseDiffs(x, y) == {i \in 1..Min(Len(x), Len(y)) : x[i] # y[i]}

Least(S) == CHOOSE i \in S : \A j \in S : i <= j

\* String.prototype.localeCompare on names of letters: the first letters
\* that differ decide; a name comes after its proper beginnings; names of
\* the same letters are ordered by case, the lower case first
localeCompare(x, y) ==
    IF LetterDiffs(x, y) # {}
    THEN IF LetterIndex(x[Least(LetterDiffs(x, y))])
              < LetterIndex(y[Least(LetterDiffs(x, y))]) THEN -1 ELSE 1
    ELSE IF Len(x) # Len(y) THEN (IF Len(x) < Len(y) THEN -1 ELSE 1)
    ELSE IF CaseDiffs(x, y) # {}
    THEN IF IsCapital(y[Least(CaseDiffs(x, y))]) THEN -1 ELSE 1
    ELSE 0

\* x || 0 of a timestamp
OrZero(o) == IF o = Null THEN 0 ELSE Get(o)

\* x || null of a timestamp
OrNull(o) == IF o = Some(0) THEN Null ELSE o

\* getSortedUnderwriters: the entry of an underwriter of the config
toEntry(data, info) ==
    [email |-> info.email,
     name |-> info.name,
     status |-> RecordOf(data, info.email).status,
     count |-> RecordOf(data, info.email).count,
     statusTime |-> RecordOf(data, info.email).statusTime,
     statusTimestamp |-> OrNull(RecordOf(data, info.email).statusTimestamp)]

\* the comparator putting the latest change first
compareTimestamp_NewestFirst(a, b) ==
    OrZero(b.statusTimestamp) - OrZero(a.statusTimestamp)

\* the comparator of greens.sort and reds.sort
compareTimestamp(a, b) ==
    OrZero(a.statusTimestamp) - OrZero(b.statusTimestamp)

\* the comparator ordering all neutral records by name
compareNeutral_ByName(a, b) == localeCompare(a.name, b.name)

\* the comparator of neutrals.sort
compareNeutral(a, b) ==
    LET aHasCount == a.count > 0
        bHasCount == b.count > 0
    IN IF aHasCount /\ bHasCount THEN a.count - b.count
       ELSE IF aHasCount /\ ~bHasCount THEN 1
       ELSE IF ~aHasCount /\ bHasCount THEN -1
       ELSE localeCompare(a.name, b.name)

compare(by, a, b) ==
    IF by = "timestamp" THEN compareTimestamp(a, b) ELSE compareNeutral(a, b)

Front(s) == SubSeq(s, 1, Len(s) - 1)

\* Array.prototype.sort is stable: x is put behind the elements of the
\* sorted s that the comparator does not put after x
RECURSIVE insertSorted(_, _, _)
insertSorted(s, x, by) ==
    IF s = <<>> THEN <<x>>
    ELSE IF compare(by, s[Len(s)], x) > 0
         THEN Append(insertSorted(Front(s), x, by), s[Len(s)])
         ELSE Append(s, x)

RECURSIVE sort(_, _)
sort(s, by) ==
    IF s = <<>> THEN <<>>
    ELSE insertSorted(sort(Front(s), by), s[Len(s)], by)

\* the filter letting the neutral entries into every group
filterStatus_WithNeutrals(entries, status) ==
    SelectSeq(entries, LAMBDA u : u.status = status \/ u.status = "neutral")

\* Array.prototype.filter(u => u.status === status)
filterStatus(entries, status) ==
    SelectSeq(entries, LAMBDA u : u.status = status)

\* getSortedUnderwriters with the red group before the green group
getSortedUnderwriters_RedsFirst(data, underwriters) ==
    IF data = Null THEN <<>>
    ELSE LET entries == [i \in 1..Len(underwriters) |->
                            toEntry(Get(data), underwriters[i])]
             greens == filterStatus(entries, "green")
             neutrals == filterStatus(entries, "neutral")
             reds == filterStatus(entries, "red")
         IN sort(reds, "timestamp") \o sort(neutrals, "neutral")
                \o sort(greens, "timestamp")

\* data is the nullable appData, underwriters the entries of
\* config.underwriters in the order of Object.entries
getSortedUnderwriters(data, underwriters) ==
    IF data = Null THEN <<>>
    ELSE LET entries == [i \in 1..Len(underwriters) |->
                            toEntry(Get(data), underwriters[i])]
             greens == filterStatus(entries, "green")
             neutrals == filterStatus(entries, "neutral")
             reds == filterStatus(entries, "red")
         IN sort(greens, "timestamp") \o sort(neutrals, "neutral")
                \o sort(reds, "timestamp")

----------------------------------------------------------------------------
(* retry.js.  An error is a record of its name, its message (null or a     *)
(* sequence of words; includes looks for a word) and its status (null or   *)
(* a number).  Delays are counted in tenths of a second.                   *)

DEFAULT_RETRY_CONFIG == [maxAttempts |-> 3, baseDelayMs |-> 10,
                         maxDelayMs |-> 100, backoffMultiplier |-> 2]

Err(name, message, status) ==
    [name |-> name, message |-> message, status |-> status]

\* error.message?.includes(word)
includes(message, word) ==
    message # Null /\ \E i \in 1..Len(Get(message)) : Get(message)[i] = word

\* lo <= error.status <= hi; false for an error without a status
statusIn(error, lo, hi) ==
    error.status # Null /\ lo <= Get(error.status) /\ Get(error.status) <= hi

isRetryableError(error) ==
    IF error.name = "NetworkError" \/ includes(error.message, "network")
    THEN TRUE
    ELSE IF error.name = "TimeoutError" \/ includes(error.message, "timeout")
    THEN TRUE
    ELSE IF error.name = "QuotaExceededError" THEN FALSE
    ELSE IF statusIn(error, 500, 599) THEN TRUE
    ELSE IF statusIn(error, 429, 429) THEN TRUE
    ELSE FALSE

RECURSIVE pow(_, _)
pow(b, e) == IF e = 0 THEN 1 ELSE b * pow(b, e - 1)

\* jitter is Math.random() * 0.2 in percent: 0 <= jitter < 20
calculateDelay(attempt, config, jitter) ==
    LET delay == config.baseDelayMs * pow(config.backoffMultiplier, attempt)
    IN Min(delay + (delay * jitter) \div 100, config.maxDelayMs)

\* the outcome of a call: a returned value (written as a string) or a
\* thrown error
Returned(value) == [kind |-> "return", value |-> Some(value), error |-> Null]
Thrown(error) == [kind |-> "throw", value |-> Null, error |-> Some(error)]

\* config.shouldRetry(error), for the functions the callers pass
shouldRetry(config, error) ==
    IF config.shouldRetry = "isRetryableError" THEN isRetryableError(error)
    ELSE FALSE

\* a catch block that retries every error
onCatch_RetriesAll(r, error, jitter) ==
    LET r1 == [r EXCEPT !.lastError = Some(error)]
        config == r.config
    IN IF r.attempt < config.maxAttempts - 1
       THEN LET delay == calculateDelay(r.attempt, config, jitter)
            IN [r1 EXCEPT !.pc = "sleep",
                          !.slept = Append(@, delay),
                          !.notified =
                             IF config.onRetry
                             THEN Append(@, [attempt |-> r.attempt + 1,
                                             maxAttempts |->
                                                config.maxAttempts,
                                             delay |-> delay,
                                             error |-> error])
                             ELSE @]
       ELSE [r1 EXCEPT !.pc = "done", !.attempt = @ + 1,
                       !.result = Some(Thrown(error))]

\* a catch block that delays and calls onRetry after the last attempt too
onCatch_DelaysLast(r, error, jitter) ==
    LET r1 == [r EXCEPT !.lastError = Some(error)]
        config == r.config
        delay == calculateDelay(r.attempt, config, jitter)
        r2 == [r1 EXCEPT !.slept = Append(@, delay),
                         !.notified =
                            IF config.onRetry
                            THEN Append(@, [attempt |-> r.attempt + 1,
                                            maxAttempts |->
                                               config.maxAttempts,
                                            delay |-> delay,
                                            error |-> error])
                            ELSE @]
    IN IF config.shouldRetry # "none" /\ ~shouldRetry(config, error)
       THEN [r1 EXCEPT !.pc = "done", !.result = Some(Thrown(error))]
       ELSE IF r.attempt < config.maxAttempts - 1
       THEN [r2 EXCEPT !.pc = "sleep"]
       ELSE [r2 EXCEPT !.pc = "done", !.attempt = @ + 1,
                       !.result = Some(Thrown(error))]

\* the catch block of withRetry, up to the sleep; after the last attempt
\* the loop ends and lastError is thrown
onCatch(r, error, jitter) ==
    LET r1 == [r EXCEPT !.lastError = Some(error)]
        config == r.config
    IN IF config.shouldRetry # "none" /\ ~shouldRetry(config, error)
       THEN [r1 EXCEPT !.pc = "done", !.result = Some(Thrown(error))]
       ELSE IF r.attempt < config.maxAttempts - 1
       THEN LET delay == calculateDelay(r.attempt, config, jitter)
            IN [r1 EXCEPT !.pc = "sleep",
                          !.slept = Append(@, delay),
                          !.notified =
                             IF config.onRetry
                             THEN Append(@, [attempt |-> r.attempt + 1,
                                             maxAttempts |->
                                                config.maxAttempts,
                                             delay |-> delay,
                                             error |-> error])
                             ELSE @]
       ELSE [r1 EXCEPT !.pc = "done", !.attempt = @ + 1,
                       !.result = Some(Thrown(error))]

\* storage.js: the adapters catch every error of the underlying call
adapterGet(outcome) ==
    IF outcome.kind = "throw" THEN Returned("null") ELSE outcome

adapterSet(outcome) ==
    IF outcome.kind = "throw" THEN Returned("false") ELSE Returned("true")

\* the options storage.get and storage.set pass to withRetry
StorageRetryOptions ==
    [maxAttempts |-> 3, shouldRetry |-> "isRetryableError", onRetry |-> TRUE]

\* AuthProvider is not mounted; logAction is not in use
NoAuth == [mounted |-> FALSE]
NoAudit == [calls |-> -1]

\* no call of withRetry and no call of isRetryableError is going on
NoRetry == [pc |-> "none"]
NoClassified == [error |-> Null, result |-> Null]

----------------------------------------------------------------------------
(* Inputs *)

Clients == {"c1"}
HostOffsets == {6}
Statuses == {"green", "red"}
Deltas == {-100, -99, -1, 1, 99, 100}
LoginInputs == {Addr("a", "n"), <<"A", "@", "n">>, <<" ", "b", "@", "n">>,
                Addr("c", "n"), Addr("x", "n"), Addr("a", "m"), <<"a">>}

\* the counters the model explores
InCountWindow(n) == n <= CountSpread \/ n >= MaxCount - CountSpread

NoOp == [op |-> "init", client |-> "", target |-> <<>>, arg |-> 0]
Op(name, c, target, arg) ==
    [op |-> name, client |-> c, target |-> target, arg |-> arg]

GateChars == {"a", "A", "b", " "}
GateStrings == UNION {[1..n -> GateChars] : n \in 0..MaxStrLen}
Roles == {UserRole.UNDERWRITER, UserRole.ASSIGNER, UserRole.UNKNOWN}
NoGate == [current |-> Null, target |-> <<>>, role |-> UserRole.UNKNOWN]

----------------------------------------------------------------------------
(* The component *)

\* the state of the board before its first load
InitBoard ==
    /\ now = -cstOffset + 1
    /\ tz \in [Clients -> HostOffsets]
    /\ store = Null
    /\ currentUser = [c \in Clients |-> Null]
    /\ userRole = [c \in Clients |-> UserRole.UNKNOWN]
    /\ appData = [c \in Clients |-> Null]
    /\ loading = [c \in Clients |-> TRUE]
    /\ refreshing = [c \in Clients |-> FALSE]
    /\ load = [c \in Clients |-> "get"]
    /\ loadBuf = [c \in Clients |-> Null]
    /\ saves = [c \in Clients |-> <<>>]
    /\ notification = [c \in Clients |-> Null]
    /\ lastOp = NoOp

Init ==
    /\ InitBoard
    /\ gateArgs = NoGate
    /\ gateResult = Null
    /\ dateResult = Null
    /\ sortResult = Null
    /\ retry = NoRetry
    /\ classified = NoClassified
    /\ auth = NoAuth
    /\ audit = NoAudit

\* showNotification: the message is shown (and a timer is started)
showNotification(c, message) ==
    notification' = [notification EXCEPT ![c] = Some(message)]

\* the callback of setTimeout in showNotification: while a message is
\* shown the timer of the latest showNotification is outstanding
DismissNotification(c) ==
    /\ notification[c] # Null
    /\ notification' = [notification EXCEPT ![c] = Null]
    /\ lastOp' = Op("dismiss", c, <<>>, 0)
    /\ UNCHANGED <<now, tz, store, currentUser, userRole, appData, loading,
                   refreshing, load, loadBuf, saves, gateArgs, gateResult,
                   dateResult, sortResult, retry, classified,
                   auth, audit>>

\* loadData writing the ledger to the store after every read
LoadGet_AlwaysWrites(c, ok) ==
    /\ load[c] = "get"
    /\ LET result == IF ok THEN store ELSE Null
           today == getCSTDateString(now, tz[c])
       IN /\ loadBuf' = [loadBuf EXCEPT ![c] =
                IF result = Null
                THEN Some(createDefaultData(CONFIG, now, tz[c]))
                ELSE IF Get(result).lastResetDate # today
                THEN Some(ResetData(Get(result), today))
                ELSE result]
          /\ load' = [load EXCEPT ![c] =
                IF result = Null THEN "setDefault" ELSE "setReset"]
          /\ UNCHANGED <<appData, loading, refreshing>>
    /\ lastOp' = Op("loadGet", c, <<>>, ok)
    /\ UNCHANGED <<now, tz, store, currentUser, userRole, saves,
                   notification, gateArgs, gateResult,
                   dateResult, sortResult, retry, classified,
                   auth, audit>>

\* loadData up to its first store write: storage.get answers (ok) or the
\* adapter swallows a read error and answers null
LoadGet(c, ok) ==
    /\ load[c] = "get"
    /\ LET result == IF ok THEN store ELSE Null
           today == getCSTDateString(now, tz[c])
       IN IF result # Null
          THEN IF Get(result).lastResetDate # today
               THEN /\ loadBuf' = [loadBuf EXCEPT ![c] =
                                      Some(ResetData(Get(result), today))]
                    /\ load' = [load EXCEPT ![c] = "setReset"]
                    /\ UNCHANGED <<appData, loading, refreshing>>
               ELSE /\ appData' = [appData EXCEPT ![c] =
                                      Some(SyncConfig(Get(result), CONFIG))]
                    /\ loading' = [loading EXCEPT ![c] = FALSE]
                    /\ refreshing' = [refreshing EXCEPT ![c] = FALSE]
                    /\ load' = [load EXCEPT ![c] = "idle"]
                    /\ UNCHANGED loadBuf
          ELSE /\ loadBuf' = [loadBuf EXCEPT ![c] =
                                 Some(createDefaultData(CONFIG, now, tz[c]))]
               /\ load' = [load EXCEPT ![c] = "setDefault"]
               /\ UNCHANGED <<appData, loading, refreshing>>
    /\ lastOp' = Op("loadGet", c, <<>>, ok)
    /\ UNCHANGED <<now, tz, store, currentUser, userRole, saves,
                   notification, gateArgs, gateResult,
                   dateResult, sortResult, retry, classified,
                   auth, audit>>

\* loadData from its store write on: storage.set writes the ledger (ok) or
\* the adapter swallows a write error and answers false; then setAppData
LoadSet(c, ok) ==
    /\ load[c] \in {"setReset", "setDefault"}
    /\ store' = IF ok THEN loadBuf[c] ELSE store
    /\ appData' = [appData EXCEPT ![c] =
                      IF load[c] = "setReset"
                      THEN Some(SyncConfig(Get(loadBuf[c]), CONFIG))
                      ELSE loadBuf[c]]
    /\ loading' = [loading EXCEPT ![c] = FALSE]
    /\ refreshing' = [refreshing EXCEPT ![c] = FALSE]
    /\ load' = [load EXCEPT ![c] = "idle"]
    /\ loadBuf' = [loadBuf EXCEPT ![c] = Null]
    /\ lastOp' = Op("loadSet", c, <<>>, <<load[c], ok>>)
    /\ UNCHANGED <<now, tz, currentUser, userRole, saves, notification,
                   gateArgs, gateResult,
                   dateResult, sortResult, retry, classified,
                   auth, audit>>

\* a refresh that ends the session as a reload of the page would
handleRefresh_SignsOut(c) ==
    /\ ~loading[c] /\ ~refreshing[c]
    /\ refreshing' = [refreshing EXCEPT ![c] = TRUE]
    /\ load' = [load EXCEPT ![c] = "get"]
    /\ currentUser' = [currentUser EXCEPT ![c] = Null]
    /\ userRole' = [userRole EXCEPT ![c] = UserRole.UNKNOWN]
    /\ lastOp' = Op("refresh", c, <<>>, 0)
    /\ UNCHANGED <<now, tz, store, appData, loading,
                   loadBuf, saves, notification, gateArgs, gateResult,
                   dateResult, sortResult, retry, classified,
                   auth, audit>>

\* handleRefresh; the Refresh button is disabled while refreshing
handleRefresh(c) ==
    /\ ~loading[c] /\ ~refreshing[c]
    /\ refreshing' = [refreshing EXCEPT ![c] = TRUE]
    /\ load' = [load EXCEPT ![c] = "get"]
    /\ lastOp' = Op("refresh", c, <<>>, 0)
    /\ UNCHANGED <<now, tz, store, currentUser, userRole, appData, loading,
                   loadBuf, saves, notification, gateArgs, gateResult,
                   dateResult, sortResult, retry, classified,
                   auth, audit>>

\* saveData, called with newData: the store write is issued
saveData(c, newData) ==
    saves' = [saves EXCEPT ![c] = Append(@, newData)]

\* saveData after its await: storage.set wrote the ledger (ok) or the
\* adapter swallowed the error and answered false; then setAppData(newData)
SaveSet(c, ok) ==
    /\ saves[c] # <<>>
    /\ store' = IF ok THEN Some(Head(saves[c])) ELSE store
    /\ appData' = [appData EXCEPT ![c] = Some(Head(saves[c]))]
    /\ saves' = [saves EXCEPT ![c] = Tail(@)]
    /\ lastOp' = Op("saveSet", c, <<>>, ok)
    /\ UNCHANGED <<now, tz, currentUser, userRole, loading, refreshing, load,
                   loadBuf, notification, gateArgs, gateResult,
                   dateResult, sortResult, retry, classified,
                   auth, audit>>

handleLogin(c, emailInput) ==
    /\ LET authResult == validateAuthorization(Some(emailInput), CONFIG)
       IN IF ~authResult.isAuthorized
          THEN UNCHANGED <<currentUser, userRole, notification>>
          ELSE /\ currentUser' = [currentUser EXCEPT ![c] =
                                     Some(authResult.email)]
               /\ userRole' = [userRole EXCEPT ![c] = authResult.role]
               /\ showNotification(c, "welcome")
    /\ lastOp' = Op("login", c, emailInput, 0)
    /\ UNCHANGED <<now, tz, store, appData, loading, refreshing, load,
                   loadBuf, saves, gateArgs, gateResult,
                   dateResult, sortResult, retry, classified,
                   auth, audit>>

\* a sign-out that forgets the user and keeps the role
handleSignOut_KeepsRole(c) ==
    /\ currentUser' = [currentUser EXCEPT ![c] = Null]
    /\ lastOp' = Op("signOut", c, <<>>, 0)
    /\ UNCHANGED <<now, tz, store, userRole, appData, loading, refreshing,
                   load, loadBuf, saves, notification, gateArgs, gateResult,
                   dateResult, sortResult, retry, classified,
                   auth, audit>>

handleSignOut(c) ==
    /\ currentUser' = [currentUser EXCEPT ![c] = Null]
    /\ userRole' = [userRole EXCEPT ![c] = UserRole.UNKNOWN]
    /\ lastOp' = Op("signOut", c, <<>>, 0)
    /\ UNCHANGED <<now, tz, store, appData, loading, refreshing, load,
                   loadBuf, saves, notification, gateArgs, gateResult,
                   dateResult, sortResult, retry, classified,
                   auth, audit>>

changeStatus(c, email, newStatus) ==
    /\ IF ~canModifyStatus(currentUser[c], Some(email), userRole[c])
       THEN /\ showNotification(c, ValidationMessages.UNAUTHORIZED_ACTION)
            /\ UNCHANGED saves
       ELSE IF appData[c] = Null
       THEN UNCHANGED <<saves, notification>>
       ELSE /\ saveData(c, changeStatusData(Get(appData[c]), email,
                                            newStatus, now, tz[c]))
            /\ UNCHANGED notification
    /\ lastOp' = Op("changeStatus", c, email, newStatus)
    /\ UNCHANGED <<now, tz, store, currentUser, userRole, appData, loading,
                   refreshing, load, loadBuf, gateArgs, gateResult,
                   dateResult, sortResult, retry, classified,
                   auth, audit>>

changeCount(c, email, delta) ==
    /\ IF ~canModifyCount(userRole[c])
       THEN /\ showNotification(c, ValidationMessages.UNAUTHORIZED_ACTION)
            /\ UNCHANGED saves
       ELSE IF appData[c] = Null
       THEN UNCHANGED <<saves, notification>>
       ELSE /\ saveData(c, changeCountData(Get(appData[c]), email, delta))
            /\ UNCHANGED notification
    /\ lastOp' = Op("changeCount", c, email, delta)
    /\ UNCHANGED <<now, tz, store, currentUser, userRole, appData, loading,
                   refreshing, load, loadBuf, gateArgs, gateResult,
                   dateResult, sortResult, retry, classified,
                   auth, audit>>

\* an hour passes
Tick ==
    /\ now < MaxNow
    /\ now' = now + 1
    /\ lastOp' = Op("tick", "", <<>>, 0)
    /\ UNCHANGED <<tz, store, currentUser, userRole, appData, loading,
                   refreshing, load, loadBuf, saves, notification,
                   gateArgs, gateResult,
                   dateResult, sortResult, retry, classified,
                   auth, audit>>

\* the store answers every read and write
StorageOutcomes == {TRUE}

\* no load and no save of the client is in flight
Settled(c) == load[c] = "idle" /\ saves[c] = <<>>

\* the counter the call leaves is one the model explores
Explored(c, email, delta) ==
    appData[c] # Null =>
        InCountWindow(newCountOf(RecordOf(Get(appData[c]), email).count, delta))

\* One client whose user acts when the previous operation has settled
Refresh(c) == Settled(c) /\ handleRefresh(c)
Login(c, emailInput) == Settled(c) /\ handleLogin(c, emailInput)
SignOut(c) == Settled(c) /\ handleSignOut(c)
ToggleStatus(c, email, newStatus) ==
    Settled(c) /\ changeStatus(c, email, newStatus)
AdjustCount(c, email, delta) ==
    Settled(c) /\ Explored(c, email, delta) /\ changeCount(c, email, delta)

Next ==
    \/ Tick
    \/ \E c \in Clients, ok \in StorageOutcomes : LoadGet(c, ok)
    \/ \E c \in Clients, ok \in StorageOutcomes : LoadSet(c, ok)
    \/ \E c \in Clients, ok \in StorageOutcomes : SaveSet(c, ok)
    \/ \E c \in Clients : Refresh(c)
    \/ \E c \in Clients, e \in LoginInputs : Login(c, e)
    \/ \E c \in Clients : SignOut(c)
    \/ \E c \in Clients, e \in UWs, s \in Statuses : ToggleStatus(c, e, s)
    \/ \E c \in Clients, e \in UWs, d \in Deltas : AdjustCount(c, e, d)
    \/ \E c \in Clients : DismissNotification(c)

Spec == Init /\ [][Next]_vars

----------------------------------------------------------------------------
(* The authorization gate alone: canModifyStatus applied to every actor    *)
(* and target of the bounded input sets                                    *)

boardVars == <<now, tz, store, currentUser, userRole, appData, loading,
               refreshing, load, loadBuf, saves, notification, lastOp>>

InitGate ==
    /\ InitBoard
    /\ gateArgs \in [current : {Null} \cup {Some(g) : g \in GateStrings},
                     target : GateStrings, role : Roles]
    /\ gateResult = Null
    /\ dateResult = Null
    /\ sortResult = Null
    /\ retry = NoRetry
    /\ classified = NoClassified
    /\ auth = NoAuth
    /\ audit = NoAudit

ApplyGate ==
    /\ gateResult = Null
    /\ gateResult' = Some(canModifyStatus(gateArgs.current,
                                          Some(gateArgs.target),
                                          gateArgs.role))
    /\ UNCHANGED <<gateArgs, dateResult, sortResult, retry, classified,
                   auth, audit, boardVars>>

NextGate == ApplyGate

SpecGate == InitGate /\ [][NextGate]_vars

----------------------------------------------------------------------------
(* getCSTDateString alone: applied at every hour of the first days of the  *)
(* epoch on hosts of several time zones                                    *)

\* getTimezoneOffset() of a host at UTC, UTC-5, UTC-6, UTC-8 and UTC+1
DateOffsets == {0, 5, 6, 8, -1}

InitDate ==
    /\ now \in 0..MaxDateHour
    /\ tz \in [Clients -> DateOffsets]
    /\ store = Null
    /\ currentUser = [c \in Clients |-> Null]
    /\ userRole = [c \in Clients |-> UserRole.UNKNOWN]
    /\ appData = [c \in Clients |-> Null]
    /\ loading = [c \in Clients |-> TRUE]
    /\ refreshing = [c \in Clients |-> FALSE]
    /\ load = [c \in Clients |-> "get"]
    /\ loadBuf = [c \in Clients |-> Null]
    /\ saves = [c \in Clients |-> <<>>]
    /\ notification = [c \in Clients |-> Null]
    /\ lastOp = NoOp
    /\ gateArgs = NoGate
    /\ gateResult = Null
    /\ dateResult = Null
    /\ sortResult = Null
    /\ retry = NoRetry
    /\ classified = NoClassified
    /\ auth = NoAuth
    /\ audit = NoAudit

ApplyDate(c) ==
    /\ dateResult = Null
    /\ dateResult' = Some(getCSTDateString(now, tz[c]))
    /\ lastOp' = Op("getCSTDateString", c, <<>>, 0)
    /\ UNCHANGED <<now, tz, store, currentUser, userRole, appData, loading,
                   refreshing, load, loadBuf, saves, notification,
                   gateArgs, gateResult, sortResult, retry, classified,
                   auth, audit>>

NextDate == \E c \in Clients : ApplyDate(c)

SpecDate == InitDate /\ [][NextDate]_vars

----------------------------------------------------------------------------
(* getSortedUnderwriters alone: applied to every ledger of a bounded set,  *)
(* for a config of four underwriters                                       *)

\* Object.entries(config.underwriters): Miranda, Lisa, Mary and Linda
SortUnderwriters ==
    <<[email |-> Addr("m", "n"), name |-> <<"M", "i">>],
      [email |-> Addr("l", "n"), name |-> <<"L", "i", "s">>],
      [email |-> Addr("y", "n"), name |-> <<"M", "a">>],
      [email |-> Addr("d", "n"), name |-> <<"L", "i">>]>>

SortEmails == {SortUnderwriters[i].email : i \in 1..Len(SortUnderwriters)}

\* an underwriter that was removed from the config after the ledger was
\* stored
RemovedEmail == Addr("x", "n")

\* the records of a ledger: neutral ones, and green and red ones with the
\* hour of the change or, stored before the timestamps were introduced,
\* without it
SortRecords ==
    {[NeutralRecord EXCEPT !.count = n] : n \in 0..MaxSortKey}
    \cup {[status |-> st, count |-> 0,
           statusTime |-> IF t = 0 THEN Null
                          ELSE Some(getCSTTimeString(t, 0)),
           statusTimestamp |-> IF t = 0 THEN Null
                               ELSE Some(getCSTTimestamp(t))] :
             st \in Statuses, t \in 0..MaxSortKey}

SortLedgers ==
    {[lastResetDate |-> 0, underwriters |-> u] :
        u \in [SortEmails -> SortRecords]}
    \cup {[lastResetDate |-> 0,
           underwriters |-> [e \in SortEmails \cup {RemovedEmail} |->
                               IF e \in SortEmails THEN u[e]
                               ELSE NeutralRecord]] :
             u \in [SortEmails -> SortRecords]}

InitSort ==
    /\ now = -cstOffset + ResetHour + MaxSortKey
    /\ tz \in [Clients -> HostOffsets]
    /\ store = Null
    /\ currentUser = [c \in Clients |-> Null]
    /\ userRole = [c \in Clients |-> UserRole.UNKNOWN]
    /\ appData \in [Clients -> {Null} \cup {Some(d) : d \in SortLedgers}]
    /\ loading = [c \in Clients |-> appData[c] = Null]
    /\ refreshing = [c \in Clients |-> FALSE]
    /\ load = [c \in Clients |-> IF appData[c] = Null THEN "get" ELSE "idle"]
    /\ loadBuf = [c \in Clients |-> Null]
    /\ saves = [c \in Clients |-> <<>>]
    /\ notification = [c \in Clients |-> Null]
    /\ lastOp = NoOp
    /\ gateArgs = NoGate
    /\ gateResult = Null
    /\ dateResult = Null
    /\ sortResult = Null
    /\ retry = NoRetry
    /\ classified = NoClassified
    /\ auth = NoAuth
    /\ audit = NoAudit

ApplySort(c) ==
    /\ sortResult = Null
    /\ sortResult' = Some(getSortedUnderwriters(appData[c], SortUnderwriters))
    /\ lastOp' = Op("getSortedUnderwriters", c, <<>>, 0)
    /\ UNCHANGED <<now, tz, store, currentUser, userRole, appData, loading,
                   refreshing, load, loadBuf, saves, notification,
                   gateArgs, gateResult, dateResult, retry, classified,
                   auth, audit>>

NextSort == \E c \in Clients : ApplySort(c)

SpecSort == InitSort /\ [][NextSort]_vars

----------------------------------------------------------------------------
(* Two clients on one store: an assigner and an underwriter who act while  *)
(* their earlier writes are on their way to the store                      *)

ConcClients == {"c1", "c2"}

\* the addresses the users of the two clients sign in with
ConcUser == [c1 |-> Addr("c", "n"), c2 |-> Addr("b", "n")]

\* the assigner adds one file at a time to the underwriter a; the
\* underwriter b presses the green button
ConcDeltas == {1}
ConcCounted == {Addr("a", "n")}
ConcStatuses == {"green"}

InitConc ==
    /\ now = -cstOffset + 1
    /\ tz \in [ConcClients -> HostOffsets]
    /\ store = Null
    /\ currentUser = [c \in ConcClients |-> Null]
    /\ userRole = [c \in ConcClients |-> UserRole.UNKNOWN]
    /\ appData = [c \in ConcClients |-> Null]
    /\ loading = [c \in ConcClients |-> TRUE]
    /\ refreshing = [c \in ConcClients |-> FALSE]
    /\ load = [c \in ConcClients |-> "get"]
    /\ loadBuf = [c \in ConcClients |-> Null]
    /\ saves = [c \in ConcClients |-> <<>>]
    /\ notification = [c \in ConcClients |-> Null]
    /\ lastOp = NoOp
    /\ gateArgs = NoGate
    /\ gateResult = Null
    /\ dateResult = Null
    /\ sortResult = Null
    /\ retry = NoRetry
    /\ classified = NoClassified
    /\ auth = NoAuth
    /\ audit = NoAudit

\* the login form is shown after the first load while nobody is signed in
SignIn(c) ==
    ~loading[c] /\ currentUser[c] = Null /\ handleLogin(c, ConcUser[c])

\* the board is shown once the first load has ended
BoardShown(c) == currentUser[c] # Null /\ ~loading[c]

\* the status buttons are enabled for the users who may edit the status
PressStatus(c, email, newStatus) ==
    /\ BoardShown(c)
    /\ canModifyStatus(currentUser[c], Some(email), userRole[c])
    /\ userRole[c] = UserRole.UNDERWRITER
    /\ Len(saves[c]) < MaxPending
    /\ changeStatus(c, email, newStatus)

\* the counter buttons are shown to the assigners
PressCount(c, email, delta) ==
    /\ BoardShown(c)
    /\ canModifyCount(userRole[c])
    /\ Len(saves[c]) < MaxPending
    /\ appData[c] # Null
    /\ RecordOf(Get(appData[c]), email).count + delta <= MaxConcCount
    /\ changeCount(c, email, delta)

\* the user reloads the board when their writes have reached the store
PressRefresh(c) == saves[c] = <<>> /\ handleRefresh(c)

NextConc ==
    \/ \E c \in ConcClients : LoadGet(c, TRUE)
    \/ \E c \in ConcClients : LoadSet(c, TRUE)
    \/ \E c \in ConcClients : SaveSet(c, TRUE)
    \/ \E c \in ConcClients : SignIn(c)
    \/ \E c \in ConcClients, e \in UWs, st \in ConcStatuses :
          PressStatus(c, e, st)
    \/ \E c \in ConcClients, e \in ConcCounted, d \in ConcDeltas :
          PressCount(c, e, d)
    \/ \E c \in ConcClients : PressRefresh(c)

SpecConc == InitConc /\ [][NextConc]_vars

----------------------------------------------------------------------------
(* Two clients over the daily reset: both loaded the ledger the day        *)
(* before, the assigner on c1 and the underwriter b on c2, and the reset   *)
(* hour has passed                                                         *)

\* the hour of the first load, the day before, and the first hour of the
\* new day on a host of HostOffsets
EveHour == -cstOffset + 1
DayHour == -cstOffset + ResetHour

\* the ledger of the day before: b is green and a has one file
EveLedger ==
    changeCountData(
        changeStatusData(createDefaultData(CONFIG, EveHour, 6),
                         Addr("b", "n"), "green", EveHour, 6),
        Addr("a", "n"), 1)

InitDay ==
    /\ now = DayHour
    /\ tz \in [ConcClients -> HostOffsets]
    /\ store = Some(EveLedger)
    /\ currentUser = [c \in ConcClients |-> Some(ConcUser[c])]
    /\ userRole = [c \in ConcClients |->
                      IF c = "c1" THEN UserRole.ASSIGNER
                      ELSE UserRole.UNDERWRITER]
    /\ appData = [c \in ConcClients |-> Some(EveLedger)]
    /\ loading = [c \in ConcClients |-> FALSE]
    /\ refreshing = [c \in ConcClients |-> FALSE]
    /\ load = [c \in ConcClients |-> "idle"]
    /\ loadBuf = [c \in ConcClients |-> Null]
    /\ saves = [c \in ConcClients |-> <<>>]
    /\ notification = [c \in ConcClients |-> Null]
    /\ lastOp = NoOp
    /\ gateArgs = NoGate
    /\ gateResult = Null
    /\ dateResult = Null
    /\ sortResult = Null
    /\ retry = NoRetry
    /\ classified = NoClassified
    /\ auth = NoAuth
    /\ audit = NoAudit

NextDay ==
    \/ \E c \in ConcClients : LoadGet(c, TRUE)
    \/ \E c \in ConcClients : LoadSet(c, TRUE)
    \/ \E c \in ConcClients : SaveSet(c, TRUE)
    \/ \E c \in ConcClients, e \in UWs, st \in ConcStatuses :
          PressStatus(c, e, st)
    \/ \E c \in ConcClients, e \in ConcCounted, d \in ConcDeltas :
          PressCount(c, e, d)
    \/ \E c \in ConcClients : PressRefresh(c)

SpecDay == InitDay /\ [][NextDay]_vars

----------------------------------------------------------------------------
(* One client on a store whose reads and writes may fail: the adapter      *)
(* answers null to a read and false to a write that failed                 *)

FailOutcomes == {TRUE, FALSE}

\* the addresses the user signs in with: the assigner or the underwriter b
FailUsers == {Addr("c", "n"), Addr("b", "n")}

SignInAs(c, emailInput) ==
    ~loading[c] /\ currentUser[c] = Null /\ handleLogin(c, emailInput)

NextFail ==
    \/ \E c \in Clients, ok \in FailOutcomes : LoadGet(c, ok)
    \/ \E c \in Clients, ok \in FailOutcomes : LoadSet(c, ok)
    \/ \E c \in Clients, ok \in FailOutcomes : SaveSet(c, ok)
    \/ \E c \in Clients, e \in FailUsers : SignInAs(c, e)
    \/ \E c \in Clients, e \in UWs, st \in ConcStatuses :
          PressStatus(c, e, st)
    \/ \E c \in Clients, e \in ConcCounted, d \in ConcDeltas :
          PressCount(c, e, d)
    \/ \E c \in Clients : PressRefresh(c)

SpecFail == Init /\ [][NextFail]_vars

----------------------------------------------------------------------------
(* withRetry alone: called directly with the options of a bounded set, or  *)
(* by storage.get and storage.set around an adapter, for every sequence    *)
(* of outcomes of the successive calls of the underlying operation         *)

\* a transient error by its name, a quota error, a transient error by its
\* status and an unknown error
RetryErrors ==
    {Err("NetworkError", Null, Null),
     Err("QuotaExceededError", Some(<<"quota">>), Null),
     Err("Error", Null, Some(500)),
     Err("Error", Null, Null)}

RetryOutcomes ==
    {Returned("v1"), Returned("v2")} \cup {Thrown(e) : e \in RetryErrors}

RetryOptions ==
    [maxAttempts : 1..MaxAttempts,
     shouldRetry : {"none", "isRetryableError"},
     onRetry : BOOLEAN]

\* config = { ...DEFAULT_RETRY_CONFIG, ...options }
configOf(options) ==
    [maxAttempts |-> options.maxAttempts,
     baseDelayMs |-> DEFAULT_RETRY_CONFIG.baseDelayMs,
     maxDelayMs |-> DEFAULT_RETRY_CONFIG.maxDelayMs,
     backoffMultiplier |-> DEFAULT_RETRY_CONFIG.backoffMultiplier,
     shouldRetry |-> options.shouldRetry,
     onRetry |-> options.onRetry]

Jitters == {0, 19}

\* withRetry entered: via tells who calls it and what fn is
RetryRun(via, options, outcomes) ==
    [via |-> via, fn |-> outcomes, config |-> configOf(options),
     pc |-> "call", attempt |-> 0, calls |-> 0, notified |-> <<>>,
     slept |-> <<>>, lastError |-> Null, result |-> Null]

InitRetry ==
    /\ InitBoard
    /\ gateArgs = NoGate
    /\ gateResult = Null
    /\ dateResult = Null
    /\ sortResult = Null
    /\ classified = NoClassified
    /\ auth = NoAuth
    /\ audit = NoAudit
    /\ \E outcomes \in [1..MaxAttempts -> RetryOutcomes] :
          \/ \E options \in RetryOptions :
                retry = RetryRun("direct", options, outcomes)
          \/ \E via \in {"storage.get", "storage.set"} :
                retry = RetryRun(via, StorageRetryOptions, outcomes)

\* one round of the loop of withRetry: fn is called; its result is
\* returned, or its error is caught
Attempt(jitter) ==
    /\ retry.pc = "call"
    /\ LET r == [retry EXCEPT !.calls = @ + 1]
           underlying == retry.fn[r.calls]
           outcome == CASE retry.via = "storage.get" -> adapterGet(underlying)
                        [] retry.via = "storage.set" -> adapterSet(underlying)
                        [] OTHER -> underlying
       IN retry' = IF outcome.kind = "return"
                   THEN [r EXCEPT !.pc = "done", !.result = Some(outcome)]
                   ELSE onCatch(r, Get(outcome.error), jitter)
    /\ UNCHANGED <<gateArgs, gateResult, dateResult, sortResult, classified,
                   auth, audit, boardVars>>

\* the sleep has ended: the next round of the loop
Resume ==
    /\ retry.pc = "sleep"
    /\ retry' = [retry EXCEPT !.pc = "call", !.attempt = @ + 1]
    /\ UNCHANGED <<gateArgs, gateResult, dateResult, sortResult, classified,
                   auth, audit, boardVars>>

NextRetry ==
    \/ \E jitter \in Jitters : Attempt(jitter)
    \/ Resume

SpecRetry == InitRetry /\ [][NextRetry]_vars

----------------------------------------------------------------------------
(* isRetryableError alone: applied to every error of a bounded set         *)

ErrNames == {"NetworkError", "TimeoutError", "QuotaExceededError", "Error"}

ErrMessages ==
    {Null, Some(<<"quota">>), Some(<<"quota", "network">>),
     Some(<<"timeout">>)}

ErrStatuses == {Null, Some(429), Some(499), Some(500), Some(599), Some(600)}

Errors ==
    {Err(n, m, st) : n \in ErrNames, m \in ErrMessages, st \in ErrStatuses}

InitClassify ==
    /\ InitBoard
    /\ gateArgs = NoGate
    /\ gateResult = Null
    /\ dateResult = Null
    /\ sortResult = Null
    /\ retry = NoRetry
    /\ classified \in [error : {Some(e) : e \in Errors}, result : {Null}]
    /\ auth = NoAuth
    /\ audit = NoAudit

ApplyClassify ==
    /\ classified.result = Null
    /\ classified' =
          [classified EXCEPT
              !.result = Some(isRetryableError(Get(classified.error)))]
    /\ UNCHANGED <<gateArgs, gateResult, dateResult, sortResult, retry,
                   auth, audit, boardVars>>

NextClassify == ApplyClassify

SpecClassify == InitClassify /\ [][NextClassify]_vars

----------------------------------------------------------------------------
(* AuthContext.jsx alone: AuthProvider over an auth service whose session  *)
(* is started and ended here and elsewhere, and a users table.  A session  *)
(* is written as the email of its user.                                    *)

\* the users table: the assigner c and the underwriter b
AuthDirectory ==
    {[email |-> Addr("c", "n"), role |-> "assigner"],
     [email |-> Addr("b", "n"), role |-> "underwriter"]}

\* the accounts that sign in: c, b and x, who is not in the users table
AuthAccounts == {Addr("c", "n"), <<"B", "@", "n">>, Addr("x", "n")}

\* supabase.js: getUserByEmail, the row of email.toLowerCase() or an error
getUserByEmail(email) ==
    LET rows == {u \in AuthDirectory : u.email = ToLowerCase(email)}
    IN IF rows = {} THEN [data |-> Null, error |-> Some("no rows")]
       ELSE [data |-> rows, error |-> Null]

\* loadAppUser is called: the lookup is on its way
loadAppUser(a, email) == [a EXCEPT !.lookups = Append(@, email)]

InitAuth ==
    /\ InitBoard
    /\ gateArgs = NoGate
    /\ gateResult = Null
    /\ dateResult = Null
    /\ sortResult = Null
    /\ retry = NoRetry
    /\ classified = NoClassified
    /\ audit = NoAudit
    /\ \E s \in {Null} \cup {Some(u) : u \in AuthAccounts} :
          auth = [mounted |-> TRUE, service |-> s, changes |-> 0,
                  events |-> <<>>, initial |-> "pending", lookups |-> <<>>,
                  signingOut |-> FALSE,
                  session |-> Null, user |-> Null, appUser |-> Null,
                  loading |-> TRUE, error |-> Null]

\* supabase.auth.getSession() resolves
GetSessionResolves ==
    /\ auth.initial = "pending"
    /\ LET a == [auth EXCEPT !.initial = "done", !.session = auth.service]
       IN auth' = IF auth.service # Null
                  THEN loadAppUser([a EXCEPT !.user = auth.service],
                                   Get(auth.service))
                  ELSE [a EXCEPT !.loading = FALSE]
    /\ UNCHANGED <<gateArgs, gateResult, dateResult, sortResult, retry,
                   classified, audit, boardVars>>

\* the callback of onAuthStateChange is called with the next event
AuthStateChange ==
    /\ auth.events # <<>>
    /\ LET session == Head(auth.events)
           a == [auth EXCEPT !.events = Tail(@), !.session = session,
                             !.user = session]
       IN auth' = IF session # Null
                  THEN loadAppUser(a, Get(session))
                  ELSE [a EXCEPT !.appUser = Null, !.loading = FALSE]
    /\ UNCHANGED <<gateArgs, gateResult, dateResult, sortResult, retry,
                   classified, audit, boardVars>>

\* a lookup of loadAppUser resolves, or throws; lookups resolve in any
\* order
LoadAppUserResolves(i, thrown) ==
    /\ i \in 1..Len(auth.lookups)
    /\ LET result == getUserByEmail(auth.lookups[i])
           a == [auth EXCEPT
                    !.lookups = SubSeq(@, 1, i - 1) \o SubSeq(@, i + 1, Len(@)),
                    !.loading = FALSE]
       IN auth' = IF thrown
                  THEN [a EXCEPT !.error = Some("failed to load")]
                  ELSE IF result.error # Null
                  THEN [a EXCEPT !.error = Some("not registered"),
                                 !.appUser = Null]
                  ELSE [a EXCEPT !.appUser = result.data, !.error = Null]
    /\ UNCHANGED <<gateArgs, gateResult, dateResult, sortResult, retry,
                   classified, audit, boardVars>>

\* signOut is called: supabase.auth.signOut() ends the session of the
\* service, which announces it
SignOutCalled ==
    /\ ~auth.signingOut /\ auth.session # Null
    /\ auth' = [auth EXCEPT
                   !.signingOut = TRUE,
                   !.service = Null,
                   !.events = IF auth.service # Null THEN Append(@, Null)
                              ELSE @]
    /\ UNCHANGED <<gateArgs, gateResult, dateResult, sortResult, retry,
                   classified, audit, boardVars>>

\* signOut after its await
SignOutResolves ==
    /\ auth.signingOut
    /\ auth' = [auth EXCEPT !.signingOut = FALSE, !.session = Null,
                            !.user = Null, !.appUser = Null]
    /\ UNCHANGED <<gateArgs, gateResult, dateResult, sortResult, retry,
                   classified, audit, boardVars>>

\* a session starts (the sign-in completes in another tab), or the session
\* ends elsewhere; the service announces the change
SessionChanges(s) ==
    /\ auth.changes < MaxAuthChanges
    /\ (s = Null) # (auth.service = Null)
    /\ auth' = [auth EXCEPT !.service = s, !.changes = @ + 1,
                            !.events = Append(@, s)]
    /\ UNCHANGED <<gateArgs, gateResult, dateResult, sortResult, retry,
                   classified, audit, boardVars>>

NextAuth ==
    \/ GetSessionResolves
    \/ AuthStateChange
    \/ \E i \in 1..MaxAuthChanges + 1, thrown \in BOOLEAN :
          LoadAppUserResolves(i, thrown)
    \/ SignOutCalled
    \/ SignOutResolves
    \/ \E s \in {Null} \cup {Some(u) : u \in AuthAccounts} : SessionChanges(s)

SpecAuth == InitAuth /\ [][NextAuth]_vars

----------------------------------------------------------------------------
(* auditLog.js alone: logAction over the audit log kept in localStorage;   *)
(* an entry is written as the number of the call that logged it.           *)

MAX_LOG_ENTRIES == 500

\* loadLog: the stored log; the empty log when nothing is stored or the
\* read fails
loadLog(item, ok) == IF ok /\ item # Null THEN Get(item) ELSE <<>>

\* saveLog keeping the first entries
saveLog_KeepsOldest(item, log, ok) ==
    IF ok THEN Some(SubSeq(log, 1, Min(Len(log), MAX_LOG_ENTRIES)))
    ELSE item

\* saveLog: log.slice(-MAX_LOG_ENTRIES) is stored; a failed write leaves
\* the item as it is
saveLog(item, log, ok) ==
    IF ok
    THEN Some(SubSeq(log, Max(1, Len(log) - MAX_LOG_ENTRIES + 1), Len(log)))
    ELSE item

InitAudit ==
    /\ InitBoard
    /\ gateArgs = NoGate
    /\ gateResult = Null
    /\ dateResult = Null
    /\ sortResult = Null
    /\ retry = NoRetry
    /\ classified = NoClassified
    /\ auth = NoAuth
    /\ audit = [calls |-> 0, item |-> Null]

\* logAction is called: the log is loaded, the entry is pushed and the log
\* is saved
logAction(readOk, writeOk) ==
    /\ audit.calls < MaxLogged
    /\ LET log == loadLog(audit.item, readOk)
           logEntry == [id |-> audit.calls + 1]
       IN audit' = [calls |-> audit.calls + 1,
                    item |-> saveLog(audit.item, Append(log, logEntry),
                                     writeOk)]
    /\ UNCHANGED <<gateArgs, gateResult, dateResult, sortResult, retry,
                   classified, auth, boardVars>>

\* localStorage answers every read and takes every write
NextAudit == logAction(TRUE, TRUE)

SpecAudit == InitAudit /\ [][NextAudit]_vars

----------------------------------------------------------------------------
(* Properties of the board *)

\* every ledger of a state: the stored one, the local ones, the ones on
\* their way to the store
LocalLedgers(c) ==
    appData[c] \cup loadBuf[c] \cup {saves[c][i] : i \in 1..Len(saves[c])}

AllLedgers == store \cup UNION {LocalLedgers(c) : c \in Clients}

Records(data) == {data.underwriters[e] : e \in DOMAIN data.underwriters}

\* the step taken is the call op(c, target, arg) of a handler
Called(name, c, target, arg) ==
    /\ lastOp'.op = name /\ lastOp'.client = c
    /\ lastOp'.target = target /\ lastOp'.arg = arg

\* C1: in every reachable state every record's counter, in the local
\* ledgers and in the store, satisfies 0 <= counter <= 99
C1_CounterInRange ==
    \A data \in AllLedgers : \A r \in Records(data) :
        0 <= r.count /\ r.count <= 99

\* an adjustment by +100 was clamped: the ledger on its way to the store
\* holds 99
C1_Witness ==
    \E c \in Clients :
        /\ lastOp.op = "changeCount" /\ lastOp.client = c
        /\ lastOp.arg = 100
        /\ saves[c] # <<>>
        /\ Head(saves[c]).underwriters[lastOp.target].count = 99

C3_UnderwriterOtherRecordRejected ==
    [][\A c \in Clients, e \in UWs, s \in Statuses :
          ( /\ Called("changeStatus", c, e, s)
            /\ userRole[c] = "underwriter"
            /\ currentUser[c] # Some(e) )
          => /\ UNCHANGED <<store, appData, saves, load, loadBuf>>
             /\ notification'[c] = Some("unauthorized")]_vars

\* underwriter a has just called changeStatus on the record of b
C3_Witness ==
    \E c \in Clients :
        /\ lastOp.op = "changeStatus" /\ lastOp.client = c
        /\ userRole[c] = "underwriter"
        /\ currentUser[c] = Some(Addr("a", "n"))
        /\ lastOp.target = Addr("b", "n")
        /\ notification[c] = Some("unauthorized")
        /\ saves[c] = <<>>

\* C4: a changeCount call of an actor whose role is not assigner is
\* rejected, whatever the record and the delta: the unauthorized-action
\* message is shown, the local ledger and the store are unchanged and no
\* write is issued
C4_NonAssignerCountRejected ==
    [][\A c \in Clients, e \in UWs, d \in Deltas :
          ( /\ Called("changeCount", c, e, d)
            /\ userRole[c] # "assigner" )
          => /\ UNCHANGED <<store, appData, saves, load, loadBuf>>
             /\ notification'[c] = Some("unauthorized")]_vars

\* an underwriter has just called changeCount on their own record
C4_Witness ==
    \E c \in Clients :
        /\ lastOp.op = "changeCount" /\ lastOp.client = c
        /\ userRole[c] = "underwriter"
        /\ currentUser[c] = Some(lastOp.target)
        /\ notification[c] = Some("unauthorized")
        /\ saves[c] = <<>>

\* the addresses x and y are the same up to case and surrounding blanks
Fold(ch) == CASE ch = "a" -> "A"
              [] ch = "b" -> "B"
              [] ch = "c" -> "C"
              [] OTHER -> ch

Ink(x) == {i \in 1..Len(x) : x[i] # " "}
First(S) == CHOOSE i \in S : \A j \in S : i <= j
Last(S) == CHOOSE i \in S : \A j \in S : j <= i

SameAddress(x, y) ==
    IF Ink(x) = {} \/ Ink(y) = {} THEN Ink(x) = {} /\ Ink(y) = {}
    ELSE /\ Last(Ink(x)) - First(Ink(x)) = Last(Ink(y)) - First(Ink(y))
         /\ \A k \in 0..(Last(Ink(x)) - First(Ink(x))) :
               Fold(x[First(Ink(x)) + k]) = Fold(y[First(Ink(y)) + k])

\* C5: for every actor (email, role) and every target id, canModifyStatus
\* is true if and only if the role is assigner or the actor's email is the
\* target id, compared without regard to case after trimming
C5_GateDecision ==
    ( /\ gateResult # Null
      /\ gateArgs.current # Null
      /\ gateArgs.role \in {"underwriter", "assigner"} )
    => ( Get(gateResult) <=>
            ( \/ gateArgs.role = "assigner"
              \/ SameAddress(Get(gateArgs.current), gateArgs.target) ) )

\* an underwriter is allowed on a target that differs from their address
\* in case and in surrounding blanks only
C5_Witness ==
    /\ gateResult = Some(TRUE)
    /\ gateArgs.role = "underwriter"
    /\ gateArgs.current = Some(<<"A", " ">>)
    /\ gateArgs.target = <<" ", "a">>

\* the actor of client c may change the status of the record of e
MayToggle(c, e) ==
    \/ userRole[c] = "assigner"
    \/ userRole[c] = "underwriter" /\ currentUser[c] = Some(e)

\* the ledger the step handed to saveData
Issued(c) == saves'[c][Len(saves'[c])]

\* C6: an authorized changeStatus(target, requested) issues one write whose
\* target record is neutral if the current status equals the requested
\* one, and has the requested status otherwise (red to green and green to
\* red directly); the write, once done, is the local ledger and the store
C6_ToggleSemantics ==
    [][\A c \in Clients :
          /\ \A e \in UWs, s \in Statuses :
                ( /\ Called("changeStatus", c, e, s)
                  /\ MayToggle(c, e)
                  /\ appData[c] # Null )
                => /\ Len(saves'[c]) = Len(saves[c]) + 1
                   /\ Issued(c).underwriters[e].status =
                         IF Get(appData[c]).underwriters[e].status = s
                         THEN "neutral" ELSE s
          /\ Called("saveSet", c, <<>>, TRUE)
                => /\ appData'[c] = Some(Head(saves[c]))
                   /\ store' = Some(Head(saves[c]))]_vars

\* a red record is on its way to the store as green
C6_Witness ==
    \E c \in Clients :
        /\ lastOp.op = "changeStatus" /\ lastOp.client = c
        /\ lastOp.arg = "green"
        /\ appData[c] # Null /\ saves[c] # <<>>
        /\ Get(appData[c]).underwriters[lastOp.target].status = "red"
        /\ Head(saves[c]).underwriters[lastOp.target].status = "green"

\* the ledger with the record of e set to neutral
setStatusNeutral(data, e) ==
    [data EXCEPT !.underwriters[e] =
        [status |-> "neutral", count |-> data.underwriters[e].count,
         statusTime |-> Null, statusTimestamp |-> Null]]

\* changeStatus(e, s) applied twice, at the hours t1 and t2
ToggledTwice(data, e, s, t1, t2, off) ==
    changeStatusData(changeStatusData(data, e, s, t1, off), e, s, t2, off)

\* C7 as claimed: for every ledger, record and status S in {green, red},
\* changeStatus(id, S) applied twice leaves the ledger with that record
\* set to neutral
C7_ToggleLawAnyRecord ==
    \A c \in Clients : appData[c] # Null =>
        \A e \in UWs, s \in Statuses, t \in now..MaxNow :
            ToggledTwice(Get(appData[c]), e, s, now, t, tz[c])
                = setStatusNeutral(Get(appData[c]), e)

\* C7, amended: for every ledger, every record whose status is not S and
\* every S in {green, red}, changeStatus(id, S) applied twice leaves the
\* ledger with that record set to neutral, its timestamps null
C7_ToggleLaw ==
    \A c \in Clients : appData[c] # Null =>
        \A e \in UWs, s \in Statuses, t \in now..MaxNow :
            Get(appData[c]).underwriters[e].status # s
            => ToggledTwice(Get(appData[c]), e, s, now, t, tz[c])
                  = setStatusNeutral(Get(appData[c]), e)

\* the second changeStatus(e, red) in a row: the record is red and is on
\* its way to the store as neutral, without timestamps
C7_Witness ==
    \E c \in Clients :
        /\ lastOp.op = "changeStatus" /\ lastOp.client = c
        /\ lastOp.arg = "red"
        /\ appData[c] # Null /\ saves[c] # <<>>
        /\ Get(appData[c]).underwriters[lastOp.target].status = "red"
        /\ Head(saves[c]) = setStatusNeutral(Get(appData[c]), lastOp.target)

Clamp(x, lo, hi) == IF x < lo THEN lo ELSE IF x > hi THEN hi ELSE x

\* C8: an authorized changeCount(target, delta) issues one write whose
\* target counter is clamp(currentCounter + delta, 0, 99)
C8_CounterClamp ==
    [][\A c \in Clients, e \in UWs, d \in Deltas :
          ( /\ Called("changeCount", c, e, d)
            /\ userRole[c] = "assigner"
            /\ appData[c] # Null )
          => /\ Len(saves'[c]) = Len(saves[c]) + 1
             /\ Issued(c).underwriters[e].count =
                   Clamp(Get(appData[c]).underwriters[e].count + d, 0, 99)]_vars

\* a counter of 99 adjusted by -100 is on its way to the store as 0
C8_Witness ==
    \E c \in Clients :
        /\ lastOp.op = "changeCount" /\ lastOp.client = c
        /\ lastOp.arg = -100
        /\ appData[c] # Null /\ saves[c] # <<>>
        /\ Get(appData[c]).underwriters[lastOp.target].count = 99
        /\ Head(saves[c]).underwriters[lastOp.target].count = 0

\* C9: an authorized changeCount that leaves the counter as it was issues
\* no write to the store
C9_NoWriteWhenUnchanged ==
    [][\A c \in Clients, e \in UWs, d \in Deltas :
          ( /\ Called("changeCount", c, e, d)
            /\ userRole[c] = "assigner"
            /\ appData[c] # Null
            /\ Clamp(Get(appData[c]).underwriters[e].count + d, 0, 99)
                  = Get(appData[c]).underwriters[e].count )
          => UNCHANGED <<saves, store>>]_vars

AllCleared(data) ==
    \A r \in Records(data) :
        /\ r.status = "neutral" /\ r.count = 0
        /\ r.statusTime = Null /\ r.statusTimestamp = Null

\* C10: a load that finds a stored ledger whose lastResetDate is not
\* today's civil date clears every record (status neutral, counter 0,
\* timestamps null), sets lastResetDate to today and writes that ledger to
\* the store; after the load it is the local ledger too
C10_DailyReset ==
    [][\A c \in Clients :
          /\ ( /\ Called("loadGet", c, <<>>, TRUE)
               /\ store # Null
               /\ Get(store).lastResetDate # getCSTDateString(now, tz[c]) )
             => /\ load'[c] = "setReset"
                /\ loadBuf'[c] # Null
                /\ AllCleared(Get(loadBuf'[c]))
                /\ DOMAIN Get(loadBuf'[c]).underwriters
                      = DOMAIN Get(store).underwriters
                /\ Get(loadBuf'[c]).lastResetDate
                      = getCSTDateString(now, tz[c])
          /\ Called("loadSet", c, <<>>, <<"setReset", TRUE>>)
             => /\ store' = loadBuf[c]
                /\ appData'[c] # Null
                /\ AllCleared(Get(appData'[c]))
                /\ Get(appData'[c]).lastResetDate
                      = Get(loadBuf[c]).lastResetDate
                /\ load'[c] = "idle"]_vars

\* a load has just reset the ledger: the store and the local ledger are
\* cleared and dated today
C10_Witness ==
    \E c \in Clients :
        /\ lastOp.op = "loadSet" /\ lastOp.client = c
        /\ lastOp.arg = <<"setReset", TRUE>>
        /\ store # Null /\ store = appData[c]
        /\ AllCleared(Get(store))
        /\ Get(store).lastResetDate = getCSTDateString(now, tz[c])

\* C11: a load that finds a stored ledger dated today's civil date leaves
\* the store (every record and the date) as it was and ends without a
\* write to the store; a load that finds a stored ledger of another date
\* issues one write, of a ledger with every record of the stored one, and
\* ends with it
C11_LoadWrites ==
    [][\A c \in Clients :
          /\ ( /\ Called("loadGet", c, <<>>, TRUE)
               /\ store # Null
               /\ Get(store).lastResetDate = getCSTDateString(now, tz[c]) )
             => /\ UNCHANGED <<store, saves>>
                /\ load'[c] = "idle"
                /\ loadBuf'[c] = Null
          /\ ( /\ Called("loadGet", c, <<>>, TRUE)
               /\ store # Null
               /\ Get(store).lastResetDate # getCSTDateString(now, tz[c]) )
             => /\ UNCHANGED <<store, saves>>
                /\ load'[c] = "setReset"
                /\ loadBuf'[c] # Null
                /\ DOMAIN Get(loadBuf'[c]).underwriters
                      = DOMAIN Get(store).underwriters
          /\ Called("loadSet", c, <<>>, <<"setReset", TRUE>>)
             => /\ store' = loadBuf[c]
                /\ UNCHANGED saves
                /\ load'[c] = "idle"
                /\ loadBuf'[c] = Null]_vars

\* a load has just ended that found the stored ledger dated today, with a
\* record that is not neutral: the store holds it still and no write is
\* on its way
C11_Witness ==
    \E c \in Clients :
        /\ lastOp.op = "loadGet" /\ lastOp.client = c
        /\ store # Null
        /\ Get(store).lastResetDate = getCSTDateString(now, tz[c])
        /\ \E r \in Records(Get(store)) : r.status # "neutral"
        /\ \E r \in Records(Get(store)) : r.count > 0
        /\ appData[c] = store
        /\ load[c] = "idle" /\ loadBuf[c] = Null /\ saves[c] = <<>>

\* the civil dates of a state: the dates of its ledgers and the dates the
\* clients read from now on
CivilDates ==
    {data.lastResetDate : data \in AllLedgers}
    \cup {getCSTDateString(t, tz[c]) : t \in now..MaxNow, c \in Clients}

\* C12: the reset check of a load is idempotent: the ledger L1 it leaves
\* for the stored ledger L and the date D is left as it is by a second
\* check with D, which resets nothing (L1 is dated D) and so writes
\* nothing; likewise for every date D of the state
C12_ResetCheckIdempotent ==
    [][\A c \in Clients :
          ( Called("loadGet", c, <<>>, TRUE) /\ store # Null )
          => LET D == getCSTDateString(now, tz[c])
                 L1 == checkAndReset(Get(store), D)
             IN /\ IF load'[c] = "setReset"
                   THEN loadBuf'[c] = Some(L1)
                   ELSE L1 = Get(store) /\ load'[c] = "idle"
                /\ L1.lastResetDate = D
                /\ checkAndReset(L1, D) = L1
                /\ \A D2 \in CivilDates :
                      LET L2 == checkAndReset(Get(store), D2)
                      IN L2.lastResetDate = D2 /\ checkAndReset(L2, D2) = L2
       ]_vars

\* the check has just reset a stored ledger of yesterday with a record
\* that was not neutral: the ledger it leaves is cleared and dated today,
\* and the check with today's date leaves that ledger as it is
C12_Witness ==
    \E c \in Clients :
        /\ lastOp.op = "loadGet" /\ lastOp.client = c
        /\ load[c] = "setReset" /\ loadBuf[c] # Null
        /\ store # Null
        /\ \E r \in Records(Get(store)) : r.status # "neutral"
        /\ Get(store).lastResetDate # getCSTDateString(now, tz[c])
        /\ Get(loadBuf[c]) # Get(store)
        /\ AllCleared(Get(loadBuf[c]))
        /\ checkAndReset(Get(loadBuf[c]), getCSTDateString(now, tz[c]))
              = Get(loadBuf[c])

\* the hour t on the wall clock of UTC-6, in hours since the epoch
CentralClock(t) == t + cstOffset

\* the calendar date of the UTC-6 wall clock at the hour t, the hours
\* before 02:00 counting as the previous date
CentralDate(t) ==
    IF CentralClock(t) % HoursPerDay < ResetHour
    THEN CentralClock(t) \div HoursPerDay - 1
    ELSE CentralClock(t) \div HoursPerDay

\* C13: at every instant and for every host timezone offset,
\* getCSTDateString returns the calendar date of the UTC-6 wall clock, and
\* the previous date while that clock is before 02:00 (so that the date
\* it returns changes at 02:00 UTC-6 and at no other time)
C13_CentralDate ==
    dateResult # Null => Get(dateResult) = CentralDate(now)

\* the sorted sequence, once getSortedUnderwriters has answered
Sorted == Get(sortResult)

\* the place of a status in the order green, neutral, red
GroupOf(status) == CASE status = "green" -> 1
                     [] status = "neutral" -> 2
                     [] status = "red" -> 3

\* C14: in the sequence returned by getSortedUnderwriters every green
\* record precedes every neutral record and every neutral record precedes
\* every red record
C14_GroupOrder ==
    sortResult # Null =>
        \A i, j \in 1..Len(Sorted) :
            i < j => GroupOf(Sorted[i].status) <= GroupOf(Sorted[j].status)

\* the sorted sequence is a green, two neutral and a red record, in that
\* order, of a ledger that the config lists as red, green, neutral, neutral
C14_Witness ==
    /\ sortResult # Null /\ Len(Sorted) = 4
    /\ Sorted[1].status = "green" /\ Sorted[1].email = Addr("l", "n")
    /\ Sorted[2].status = "neutral" /\ Sorted[3].status = "neutral"
    /\ Sorted[4].status = "red" /\ Sorted[4].email = Addr("m", "n")

\* the hour of the last change of status of an entry, 0 if it has none
ChangedAt(u) ==
    IF u.statusTimestamp = Null THEN 0 ELSE Get(u.statusTimestamp)

\* C15: within the green group and within the red group of the sorted
\* sequence the records are in ascending order of statusTimestamp, a
\* record without timestamp being ordered as if its timestamp were 0
C15_TimestampOrder ==
    sortResult # Null =>
        \A i, j \in 1..Len(Sorted) :
            ( /\ i < j
              /\ Sorted[i].status \in {"green", "red"}
              /\ Sorted[i].status = Sorted[j].status )
            => ChangedAt(Sorted[i]) <= ChangedAt(Sorted[j])

\* three red records that the config lists latest change first are
\* sorted as: no timestamp, changed at hour 1, changed at hour 2; they
\* follow the one green record
C15_Witness ==
    /\ sortResult # Null /\ Len(Sorted) = 4
    /\ Sorted[1].status = "green" /\ Sorted[1].email = Addr("d", "n")
    /\ \A i \in 2..4 : Sorted[i].status = "red"
    /\ Sorted[2].email = Addr("y", "n") /\ Sorted[2].statusTimestamp = Null
    /\ Sorted[3].email = Addr("l", "n")
    /\ Sorted[3].statusTimestamp = Some(1)
    /\ Sorted[4].email = Addr("m", "n")
    /\ Sorted[4].statusTimestamp = Some(2)

\* the name x comes after the name y in the alphabet, whatever the case
\* of the letters
AlphabeticallyAfter(x, y) ==
    \/ \E i \in 1..Min(Len(x), Len(y)) :
          /\ LetterIndex(x[i]) > LetterIndex(y[i])
          /\ \A k \in 1..(i - 1) : LetterIndex(x[k]) = LetterIndex(y[k])
    \/ /\ Len(x) > Len(y)
       /\ \A k \in 1..Len(y) : LetterIndex(x[k]) = LetterIndex(y[k])

\* C16: within the neutral group of the sorted sequence every record with
\* counter 0 precedes every record with counter > 0, whatever the names;
\* the records with counter 0 are in ascending alphabetical order of the
\* display name; the records with counter > 0 are in ascending order of
\* the counter
C16_NeutralOrder ==
    sortResult # Null =>
        \A i, j \in 1..Len(Sorted) :
            ( /\ i < j
              /\ Sorted[i].status = "neutral"
              /\ Sorted[j].status = "neutral" )
            => /\ Sorted[j].count = 0 => Sorted[i].count = 0
               /\ (Sorted[i].count = 0 /\ Sorted[j].count = 0)
                     => ~AlphabeticallyAfter(Sorted[i].name, Sorted[j].name)
               /\ (Sorted[i].count > 0 /\ Sorted[j].count > 0)
                     => Sorted[i].count <= Sorted[j].count

\* four neutral records: Lis and Mi without counter, in the order of the
\* alphabet and not of the config, before Li with counter 1 and Ma with
\* counter 2, whose names come before theirs
C16_Witness ==
    /\ sortResult # Null /\ Len(Sorted) = 4
    /\ \A i \in 1..4 : Sorted[i].status = "neutral"
    /\ Sorted[1].name = <<"L", "i", "s">> /\ Sorted[1].count = 0
    /\ Sorted[2].name = <<"M", "i">> /\ Sorted[2].count = 0
    /\ Sorted[3].name = <<"L", "i">> /\ Sorted[3].count = 1
    /\ Sorted[4].name = <<"M", "a">> /\ Sorted[4].count = 2

\* the places of the sorted sequence that hold the entry of email
PlacesOf(email) == {i \in 1..Len(Sorted) : Sorted[i].email = email}

\* the entry shows the record that the ledger holds for its email
ShowsRecordOf(data, u) ==
    /\ u.email \in DOMAIN data.underwriters
    /\ u.status = data.underwriters[u.email].status
    /\ u.count = data.underwriters[u.email].count
    /\ u.statusTime = data.underwriters[u.email].statusTime
    /\ u.statusTimestamp = data.underwriters[u.email].statusTimestamp

\* C17 as claimed: every record of the ledger appears in the sequence
\* returned by getSortedUnderwriters exactly once, and no entry appears
\* that is not a record of the ledger
C17_EveryLedgerRecordOnce ==
    \A c \in Clients :
        ( /\ sortResult # Null /\ appData[c] # Null
          /\ lastOp.client = c )
        => /\ \A e \in DOMAIN Get(appData[c]).underwriters :
                 Cardinality(PlacesOf(e)) = 1
           /\ \A i \in 1..Len(Sorted) :
                 ShowsRecordOf(Get(appData[c]), Sorted[i])

\* C17, amended: every record of the ledger that is the record of an
\* underwriter of the config appears in the sequence returned by
\* getSortedUnderwriters exactly once, and no entry appears that is not
\* such a record
C17_EveryUnderwriterOnce ==
    \A c \in Clients :
        ( /\ sortResult # Null /\ appData[c] # Null
          /\ lastOp.client = c )
        => /\ \A e \in DOMAIN Get(appData[c]).underwriters :
                 e \in SortEmails => Cardinality(PlacesOf(e)) = 1
           /\ \A i \in 1..Len(Sorted) :
                 /\ Sorted[i].email \in SortEmails
                 /\ ShowsRecordOf(Get(appData[c]), Sorted[i])

\* a ledger with the record of a removed underwriter was sorted: the
\* sequence holds the four underwriters of the config, of all three
\* groups, and not the removed one
C17_Witness ==
    \E c \in Clients :
        /\ sortResult # Null /\ appData[c] # Null
        /\ lastOp.client = c
        /\ RemovedEmail \in DOMAIN Get(appData[c]).underwriters
        /\ PlacesOf(RemovedEmail) = {}
        /\ Len(Sorted) = 4
        /\ {Sorted[i].email : i \in 1..4} = SortEmails
        /\ {Sorted[i].status : i \in 1..4} = {"green", "neutral", "red"}

\* the records that the write at the head of the queue of client c changes
\* in the ledger the client holds
Mutated(c) ==
    {e \in DOMAIN Head(saves[c]).underwriters :
        Head(saves[c]).underwriters[e] # RecordOf(Get(appData[c]), e)}

\* C18: a mutation of one record by one actor never changes the stored
\* value of a different record: when the write of one client has reached
\* the store and then the write of a mutation by another client does, it
\* leaves every stored record as it was that this client did not mutate,
\* so that the store holds both mutations
C18_OtherRecordsKept ==
    [][\A c \in ConcClients :
          ( /\ Called("saveSet", c, <<>>, TRUE)
            /\ lastOp.op = "saveSet" /\ lastOp.client # c
            /\ store # Null /\ appData[c] # Null
            /\ Len(saves[c]) = 1
            /\ Mutated(c) # {} )
          => \A e \in DOMAIN Get(store).underwriters :
                e \notin Mutated(c)
                => /\ e \in DOMAIN Get(store').underwriters
                   /\ Get(store').underwriters[e]
                         = Get(store).underwriters[e]]_vars

\* the ledger that holds the effect of every operation client c has
\* issued: the last one on its way to the store, else the local one
Base(c) ==
    IF saves[c] = <<>> THEN Get(appData[c]) ELSE saves[c][Len(saves[c])]

\* C19: the operations of one actor apply in the order issued and none is
\* lost: every toggle and every counter adjustment is computed from the
\* ledger that holds the effect of all operations the actor issued before,
\* also of those whose write has not reached the store yet
C19_AppliedInOrder ==
    [][\A c \in ConcClients : \A e \in UWs :
          /\ \A d \in ConcDeltas :
                ( /\ Called("changeCount", c, e, d)
                  /\ userRole[c] = "assigner"
                  /\ appData[c] # Null )
                => Issued(c) = changeCountData(Base(c), e, d)
          /\ \A st \in ConcStatuses :
                ( /\ Called("changeStatus", c, e, st)
                  /\ MayToggle(c, e)
                  /\ appData[c] # Null )
                => Issued(c) = changeStatusData(Base(c), e, st, now, tz[c])
       ]_vars

\* C20: a mutation is applied optimistically: while the write of a toggle
\* or of a counter change is on its way to the store, the local ledger is
\* the ledger being written
C20_OptimisticUpdate ==
    \A c \in Clients :
        saves[c] # <<>> => appData[c] = Some(saves[c][Len(saves[c])])

\* C21: whenever the store write of a toggle or of a counter adjustment
\* fails, a full reload of the ledger from the store is triggered
C21_FailedWriteReloads ==
    [][\A c \in Clients :
          Called("saveSet", c, <<>>, FALSE) => load'[c] = "get"]_vars

\* C22: after a store write has failed the local ledger is the ledger from
\* before the mutation or the ledger of the store, never a mutated ledger
\* that the store does not hold
C22_FailedWriteKeepsLedger ==
    [][\A c \in Clients :
          Called("saveSet", c, <<>>, FALSE) /\ store # Null
              => appData'[c] = appData[c] \/ appData'[c] = store']_vars

\* C23: every failed operation, a store read or a store write that failed,
\* produces the user-visible notification of a storage error (as every
\* rejected toggle or adjustment produces the notification of C3 and C4)
C23_FailureNotified ==
    [][\A c \in Clients :
          \/ Called("loadGet", c, <<>>, FALSE)
          \/ Called("saveSet", c, <<>>, FALSE)
          => notification'[c] = Some(ValidationMessages.STORAGE_ERROR)]_vars

----------------------------------------------------------------------------
(* Properties of the retry utilities *)

\* the call of withRetry has ended
RetryDone == retry.pc = "done"

\* the k-th call of the underlying operation failed with a transient error
TransientAt(k) ==
    /\ retry.fn[k].kind = "throw"
    /\ isRetryableError(Get(retry.fn[k].error))

\* C24: a store read or write that fails with a transient error is retried
\* by storage.get / storage.set: when the first call of the underlying
\* operation fails with a transient error a second call is made before
\* the call of storage.get / storage.set ends
C24_TransientRetried ==
    /\ retry.pc # "none" /\ retry.via \in {"storage.get", "storage.set"}
    /\ RetryDone /\ TransientAt(1)
    => retry.calls >= 2

\* the k-th call of fn has been made and has failed with an error for
\* which shouldRetry returns false
RefusedAt(k) ==
    /\ retry.pc # "none" /\ retry.via = "direct"
    /\ retry.calls >= k
    /\ retry.fn[k].kind = "throw"
    /\ retry.config.shouldRetry # "none"
    /\ ~shouldRetry(retry.config, Get(retry.fn[k].error))

\* C25: when fn fails with an error for which shouldRetry returns false,
\* withRetry makes no further attempt: that call of fn is the last one, no
\* delay and no onRetry callback follows it, and the same error is thrown
C25_NoRetryWhenRefused ==
    \A k \in 1..MaxAttempts :
        RefusedAt(k) =>
            /\ RetryDone /\ retry.calls = k
            /\ retry.result = Some(retry.fn[k])
            /\ Len(retry.slept) = k - 1
            /\ Len(retry.notified) = IF retry.config.onRetry THEN k - 1 ELSE 0

\* a transient failure has been retried and the second call of fn has
\* failed with a quota error
C25_Witness ==
    /\ RefusedAt(2) /\ TransientAt(1)
    /\ retry.fn[2].error = Some(Err("QuotaExceededError", Some(<<"quota">>),
                                    Null))
    /\ retry.config.onRetry /\ RetryDone

\* the first k calls of fn all fail, each with an error that is retried
AllRetried(k) ==
    \A i \in 1..k :
        /\ retry.fn[i].kind = "throw"
        /\ \/ retry.config.shouldRetry = "none"
           \/ shouldRetry(retry.config, Get(retry.fn[i].error))

\* C28: withRetry invokes fn at most maxAttempts times; it stops at the
\* first success and returns its result; when every attempt fails with a
\* retryable error it throws the last error after exactly maxAttempts
\* invocations, with onRetry called maxAttempts - 1 times, the last time
\* before the final attempt
C28_BoundedAttempts ==
    retry.pc # "none" /\ retry.via = "direct" =>
        LET max == retry.config.maxAttempts
        IN /\ retry.calls <= max
           /\ \A k \in 1..retry.calls :
                 retry.fn[k].kind = "return" =>
                     /\ retry.calls = k /\ RetryDone
                     /\ retry.result = Some(retry.fn[k])
           /\ RetryDone /\ AllRetried(max) =>
                 /\ retry.calls = max
                 /\ retry.result = Some(retry.fn[max])
                 /\ Len(retry.slept) = max - 1
                 /\ retry.config.onRetry =>
                       /\ Len(retry.notified) = max - 1
                       /\ \A i \in 1..max - 1 :
                             /\ retry.notified[i].attempt = i
                             /\ retry.notified[i].error
                                   = Get(retry.fn[i].error)

\* three attempts have failed with retryable errors; and, in another run,
\* the second attempt has succeeded
C28_Witness ==
    /\ retry.pc # "none" /\ retry.via = "direct" /\ RetryDone
    /\ retry.config.maxAttempts = 3 /\ retry.config.onRetry
    /\ AllRetried(3) /\ retry.calls = 3 /\ Len(retry.notified) = 2

C28_WitnessSuccess ==
    /\ retry.pc # "none" /\ retry.via = "direct" /\ RetryDone
    /\ retry.config.maxAttempts = 3
    /\ AllRetried(1) /\ retry.fn[2] = Returned("v2") /\ retry.calls = 2

\* C29: isRetryableError never classifies a storage quota error as
\* retryable: for every error whose name is QuotaExceededError, whatever
\* its message and its status, the result is false
C29_QuotaNeverRetried ==
    /\ classified.result # Null
    /\ Get(classified.error).name = "QuotaExceededError"
    => classified.result = Some(FALSE)

----------------------------------------------------------------------------
(* Properties of the session *)

\* the step is a login of client c that passes validateAuthorization
LoggedIn(c) ==
    /\ lastOp'.op = "login" /\ lastOp'.client = c
    /\ validateAuthorization(Some(lastOp'.target), CONFIG).isAuthorized

\* C26: currentUser and userRole are changed only by a successful login
\* and by sign-out: a load or refresh, a daily reset, a status toggle, a
\* counter adjustment and a failed login leave them unchanged
C26_SessionFixed ==
    [][\A c \in Clients :
          currentUser'[c] # currentUser[c] \/ userRole'[c] # userRole[c]
              => LoggedIn(c) \/ Called("signOut", c, <<>>, 0)]_vars

\* the signed-in underwriter has pressed Refresh and the load has reset
\* the ledger of the day before
C26_Witness ==
    \E c \in Clients :
        /\ currentUser[c] = Some(Addr("a", "n"))
        /\ userRole[c] = UserRole.UNDERWRITER
        /\ lastOp.op = "loadSet" /\ lastOp.client = c
        /\ lastOp.arg = <<"setReset", TRUE>>

----------------------------------------------------------------------------
(* Properties of the records *)

\* the ids of the records of a ledger that is there
IdsOf(ledger) == IF ledger = Null THEN {} ELSE DOMAIN Get(ledger).underwriters

\* C27: no load, daily reset, status toggle or counter adjustment removes
\* a record from the ledger: the set of the record ids of the local
\* ledger and of the store never shrinks
C27_RecordsNeverRemoved ==
    [][/\ IdsOf(store) \subseteq IdsOf(store')
       /\ \A c \in Clients : IdsOf(appData[c]) \subseteq IdsOf(appData'[c])
      ]_vars

\* a toggle has been written to the store, which holds the toggled record
\* and the record of the other underwriter
C27_Witness ==
    /\ lastOp.op = "saveSet"
    /\ IdsOf(store) = UWs
    /\ RecordOf(Get(store), Addr("a", "n")).status = "green"
    /\ \E c \in Clients : IdsOf(appData[c]) = UWs

\* somebody is signed in on client c exactly when the role of the client
\* is underwriter or assigner; otherwise the role is unknown
LoginState(c) ==
    /\ currentUser[c] # Null
          <=> userRole[c] \in {UserRole.UNDERWRITER, UserRole.ASSIGNER}
    /\ currentUser[c] = Null <=> userRole[c] = UserRole.UNKNOWN

\* the step is a login of client c that fails validateAuthorization
LoginFailed(c) ==
    /\ lastOp'.op = "login" /\ lastOp'.client = c
    /\ ~validateAuthorization(Some(lastOp'.target), CONFIG).isAuthorized

\* C30: in every reachable state currentUser is non-null if and only if
\* userRole is underwriter or assigner, userRole being unknown exactly
\* when nobody is signed in; and a login attempt that fails validation
\* leaves currentUser and userRole unchanged
C30_LoginState ==
    /\ [](\A c \in Clients : LoginState(c))
    /\ [][\A c \in Clients :
             LoginFailed(c) => UNCHANGED <<currentUser, userRole>>]_vars

\* nobody is signed in, the board is loaded, and a login with an address
\* that is not in the config has just failed
C30_Witness ==
    \E c \in Clients :
        /\ lastOp.op = "login" /\ lastOp.client = c
        /\ lastOp.target = Addr("x", "n")
        /\ ~loading[c] /\ appData[c] # Null
        /\ currentUser[c] = Null
        /\ userRole[c] = UserRole.UNKNOWN

\* the step is a call of changeStatus or of changeCount on client c
Pressed(c) ==
    /\ lastOp'.op \in {"changeStatus", "changeCount"}
    /\ lastOp'.client = c

\* C31: after sign-out and until the next successful login no status
\* toggle and no counter adjustment is accepted: every call of
\* changeStatus and of changeCount while nobody is signed in leaves the
\* local ledger and the store unchanged and issues no write
C31_SignedOutRejected ==
    [][\A c \in Clients :
          Pressed(c) /\ currentUser[c] = Null
              => UNCHANGED <<store, appData, saves>>]_vars

\* the underwriter a has set the own status to green and has signed out;
\* a toggle pressed afterwards has been rejected
C31_Witness ==
    \E c \in Clients :
        /\ lastOp.op = "changeStatus" /\ lastOp.client = c
        /\ currentUser[c] = Null /\ userRole[c] = UserRole.UNKNOWN
        /\ store # Null /\ store = appData[c]
        /\ RecordOf(Get(store), Addr("a", "n")).status = "green"
        /\ notification[c] = Some(ValidationMessages.UNAUTHORIZED_ACTION)

\* C32: an authorized changeStatus changes only the status, statusTime and
\* statusTimestamp of the target record and an authorized changeCount only
\* its counter: in the ledger that is written the other fields of the
\* target, every other record and lastResetDate are those of the local
\* ledger
C32_OnlyTargetFields ==
    [][\A c \in Clients :
          Pressed(c) /\ Len(saves'[c]) > Len(saves[c]) =>
              LET e == lastOp'.target
                  old == Get(appData[c])
                  new == Issued(c)
              IN /\ new.lastResetDate = old.lastResetDate
                 /\ DOMAIN new.underwriters = DOMAIN old.underwriters
                 /\ \A o \in DOMAIN old.underwriters \ {e} :
                       new.underwriters[o] = old.underwriters[o]
                 /\ lastOp'.op = "changeStatus" =>
                       new.underwriters[e].count = old.underwriters[e].count
                 /\ lastOp'.op = "changeCount" =>
                       new.underwriters[e] =
                          [old.underwriters[e] EXCEPT
                              !.count = new.underwriters[e].count]]_vars

\* the assigner has issued the write of a counter of 99 for the green
\* record of a while the record of b is red
C32_Witness ==
    \E c \in Clients :
        /\ lastOp.op = "changeCount" /\ lastOp.client = c
        /\ lastOp.target = Addr("a", "n")
        /\ saves[c] # <<>> /\ appData[c] # Null
        /\ LET new == saves[c][Len(saves[c])].underwriters
               old == Get(appData[c]).underwriters
           IN /\ new[Addr("a", "n")].status = "green"
              /\ new[Addr("a", "n")].count = MaxCount
              /\ old[Addr("a", "n")].count = 0
              /\ new[Addr("b", "n")].status = "red"

----------------------------------------------------------------------------
(* Properties of the day *)

\* C33: the date returned by getCSTDateString never decreases as time
\* advances on a host of a fixed timezone: the date returned at an hour
\* is not earlier than the date returned the hour before (so that a
\* client that loads repeatedly resets at most once per civil day)
C33_DateMonotonic ==
    \A c \in Clients :
        dateResult # Null /\ now > 0
            => Get(dateResult) >= getCSTDateString(now - 1, tz[c])

\* C34: a daily reset is never undone: once the store holds the ledger of
\* a date, no later write of any client, also of one whose local ledger
\* was loaded before the reset, puts back an earlier lastResetDate (and
\* with it the statuses and counters from before the reset)
C34_ResetNeverUndone ==
    [][store # Null /\ store' # Null
          => Get(store').lastResetDate >= Get(store).lastResetDate]_vars

\* C35: a mutation persisted after the reset for a date is never erased
\* by the reset of another client for the same date: when the write of a
\* reset reaches a store that already holds the ledger of that date, it
\* leaves every stored record as it is
C35_MutationSurvivesReset ==
    [][\A c \in ConcClients :
          ( /\ lastOp'.op = "loadSet" /\ lastOp'.client = c
            /\ lastOp'.arg = <<"setReset", TRUE>>
            /\ store # Null
            /\ Get(store).lastResetDate = getCSTDateString(now, tz[c]) )
          => Get(store').underwriters = Get(store).underwriters]_vars

\* C36: a failed read of the store never destroys stored data: the write
\* of the default ledger by loadData never replaces a ledger that the
\* store holds
C36_FailedReadKeepsStore ==
    [][\A c \in Clients :
          ( /\ lastOp'.op = "loadSet" /\ lastOp'.client = c
            /\ lastOp'.arg[1] = "setDefault"
            /\ store # Null )
          => store' = store]_vars

----------------------------------------------------------------------------
(* Properties of AuthContext *)

\* C37: under every interleaving of the initial session check, the
\* auth-state-change events, the lookups of loadAppUser in flight and
\* signOut, appUser is non-null only while a session exists, and it is
\* the entry of the users table for the user of the current session
C37_AppUserOfSession ==
    auth.mounted /\ auth.appUser # Null =>
        /\ auth.session # Null
        /\ Get(auth.appUser).email = ToLowerCase(Get(auth.session))

----------------------------------------------------------------------------
(* Properties of the audit log *)

\* C38: after any sequence of logAction calls the stored audit log holds
\* at most 500 entries, and they are the most recently logged entries in
\* the order they were logged
C38_LastEntriesKept ==
    audit.calls > 0 =>
        /\ audit.item # Null
        /\ LET log == Get(audit.item)
           IN /\ Len(log) <= MAX_LOG_ENTRIES
              /\ Len(log) = Min(audit.calls, MAX_LOG_ENTRIES)
              /\ \A i \in 1..Len(log) :
                    log[i].id = audit.calls - Len(log) + i

\* more calls than the log holds: the oldest entries are dropped
C38_Witness ==
    /\ audit.calls = MAX_LOG_ENTRIES + 2
    /\ audit.item # Null
    /\ Len(Get(audit.item)) = MAX_LOG_ENTRIES
    /\ Head(Get(audit.item)).id = 3

====
